---- MODULE Spec2Model ----
(***************************************************************************)
(* Image-processing pipeline: the storage-event dispatch (EventBridge      *)
(* rules, the Step Functions router, the processor and adjuster Lambda     *)
(* handlers), the submission chain of the state machine, the segmentation   *)
(* endpoint, the processor's analysis and report, and the adjuster's       *)
(* decision normalisation, artifact generation and routing-table write     *)
(* (one run, a crowded image, two runs at once); the helper functions      *)
(* (pixel box, size-fitting transform, mask overlap) on their own.         *)
(*                                                                         *)
(* Strings are sequences of one-character strings, so that prefix, suffix, *)
(* wildcard, case and parsing operations are computed, not assumed.        *)
(* Floats are counted in units of 10^-7 (Fine units per 1.0).              *)
(***************************************************************************)
EXTENDS Integers, Sequences, FiniteSets, TLC

VARIABLES
    objects,   \* the S3 bucket: the set of object keys present
    table,     \* the DynamoDB routing table: a set of items, one per routing_id
    ev,        \* the trigger being dispatched: [key, source, rules]
    sfn,       \* the Step Functions execution: [state, key]
    proc,      \* the report handler invocation: [pc, variant, key, calls, err, msg]
    adj,       \* the adjuster Lambda invocations: id -> record
    pil,       \* PIL_AVAILABLE of the adjuster runtime
    now,       \* number of triggers so far (the clock behind created_at)
    sub,       \* the executions of the submission chain: id -> record
    fn,        \* the call of a helper function examined on its own: [op, ...]
    seg        \* the requests of the segmentation endpoint: id -> record

vars == <<objects, table, ev, sfn, proc, adj, pil, now, sub, fn, seg>>

----------------------------------------------------------------------------
(* Bounds of the model *)

\* number of triggers (storage events or direct invocations) in one behaviour
MaxEvents == 2
\* longest homes list the reasoning service returns
MaxHomes == 2
\* largest of the small image sides (in pixels) a helper is called with
MaxSide == 3
\* Retries of the ProcessImage task that are followed.
MaxRetries == 1

----------------------------------------------------------------------------
(* Python string operations on character sequences *)

startswith(s, p) == Len(s) >= Len(p) /\ SubSeq(s, 1, Len(p)) = p

endswith(s, p) == Len(s) >= Len(p) /\ SubSeq(s, Len(s) - Len(p) + 1, Len(s)) = p

\* The wildcard match of Step Functions' StringMatches and of EventBridge's
\* {"wildcard": ...}: "*" matches zero or more characters, the match is anchored
\* at both ends.
RECURSIVE string_matches(_, _)
string_matches(s, pat) ==
    IF pat = <<>> THEN s = <<>>
    ELSE IF Head(pat) = "*"
         THEN string_matches(s, Tail(pat))
              \/ (s # <<>> /\ string_matches(Tail(s), pat))
         ELSE s # <<>> /\ Head(s) = Head(pat)
              /\ string_matches(Tail(s), Tail(pat))

\* urllib's percent-decoding of one escape; escapes outside this table do not
\* occur in the keys of the model and are left as they are.
HexPair(a, b) ==
    CASE a = "2" /\ b \in {"F", "f"} -> <<"/">>
      [] a = "2" /\ b \in {"B", "b"} -> <<"+">>
      [] a = "2" /\ b = "0" -> <<" ">>
      [] a = "2" /\ b = "5" -> <<"%">>
      [] OTHER -> <<"%", a, b>>

\* urllib.parse.unquote_plus: "+" becomes a space, %XX is decoded.
RECURSIVE unquote_plus(_)
unquote_plus(s) ==
    IF s = <<>> THEN <<>>
    ELSE IF Head(s) = "+" THEN <<" ">> \o unquote_plus(Tail(s))
    ELSE IF Head(s) = "%" /\ Len(s) >= 3
         THEN HexPair(s[2], s[3]) \o unquote_plus(SubSeq(s, 4, Len(s)))
         ELSE <<Head(s)>> \o unquote_plus(Tail(s))

----------------------------------------------------------------------------
(* Object keys of the model *)

KeyPrefixes ==
    { <<"i", "n", "p", "u", "t", "s", "/">>,
      <<"a", "s", "y", "n", "c", "-", "o", "u", "t", "/">>,
      <<"c", "o", "m", "p", "a", "r", "e", "d", "/">>,
      <<"o", "t", "h", "e", "r", "/">>,
      <<"i", "n", "p", "u", "t", "s">>,
      <<"c", "o", "m", "p", "a", "r", "e", "d", "%", "2", "F">> }

KeyStems ==
    { <<>>, <<"a">>, <<"a", "+", "b">>, <<"i", "n", "p", "u", "t", "s", "/", "a">> }

KeySuffixes ==
    { <<>>, <<".", "j", "s", "o", "n">>, <<".", "o", "u", "t">>, <<".", "p", "n", "g">> }

\* every key the dispatch is checked on
AllKeys == { p \o m \o x : p \in KeyPrefixes, m \in KeyStems, x \in KeySuffixes }

\* the keys the whole pipeline is run on
PipelineKeys ==
    { <<"c", "o", "m", "p", "a", "r", "e", "d", "/", "a", ".", "p", "n", "g">>,
      <<"c", "o", "m", "p", "a", "r", "e", "d", "/", "a", "+", "b", ".", "p", "n", "g">>,
      <<"i", "n", "p", "u", "t", "s", "/", "a", ".", "j", "s", "o", "n">>,
      <<"a", "s", "y", "n", "c", "-", "o", "u", "t", "/", "a", ".", "o", "u", "t">>,
      <<"o", "t", "h", "e", "r", "/", "a", ".", "p", "n", "g">> }

----------------------------------------------------------------------------
(* Python values *)

\* the rounding of stored box coordinates: round(x, 6)
RoundDigits == 6

\* floats are counted in units of 10^-(RoundDigits + 1), one digit finer than
\* the rounding, so that rounding is an operation that can change a value
Fine == 10 ^ (RoundDigits + 1)

\* A float: finite (v units of 1/Fine), or nan, inf, -inf.
Fin(v) == [k |-> "fin", v |-> v]
NaN == [k |-> "nan", v |-> 0]
PosInf == [k |-> "inf", v |-> 0]
NegInf == [k |-> "ninf", v |-> 0]

\* a < b on floats: false whenever one side is nan
FLt(a, b) ==
    CASE a.k = "nan" \/ b.k = "nan" -> FALSE
      [] a.k = "ninf" -> b.k # "ninf"
      [] a.k = "inf" -> FALSE
      [] b.k = "inf" -> TRUE
      [] b.k = "ninf" -> FALSE
      [] OTHER -> a.v < b.v

\* Python's min(a, b) and max(a, b) of two arguments: the first argument is
\* kept unless the second is strictly smaller (larger).
PyMin(a, b) == IF FLt(b, a) THEN b ELSE a
PyMax(a, b) == IF FLt(a, b) THEN b ELSE a

\* JSON values as json.loads returns them.  A dict is a function from its keys.
JNull == [t |-> "null"]
JBool(b) == [t |-> "bool", b |-> b]
JInt(n) == [t |-> "int", n |-> n]
JFloat(f) == [t |-> "float", f |-> f]
JStr(s) == [t |-> "str", s |-> s]
JList(items) == [t |-> "list", items |-> items]
JDict(d) == [t |-> "dict", d |-> d]
\* an integer literal beyond the range of a double (1 followed by 400 zeros),
\* which json.loads reads as an int
JHuge == [t |-> "huge"]

\* dict.get(key, default)
get(dict, key, default) == IF key \in DOMAIN dict.d THEN dict.d[key] ELSE default

UpperCase == <<"A", "B", "C", "D", "E", "F", "G", "H", "I", "J", "K", "L", "M",
               "N", "O", "P", "Q", "R", "S", "T", "U", "V", "W", "X", "Y", "Z">>
LowerCase == <<"a", "b", "c", "d", "e", "f", "g", "h", "i", "j", "k", "l", "m",
               "n", "o", "p", "q", "r", "s", "t", "u", "v", "w", "x", "y", "z">>

\* str.lower()
lower(s) ==
    [i \in 1..Len(s) |->
        IF \E j \in 1..26 : UpperCase[j] = s[i]
        THEN LowerCase[CHOOSE j \in 1..26 : UpperCase[j] = s[i]]
        ELSE s[i]]

Whitespace == {" ", "\t", "\n", "\r"}

\* str.strip()
RECURSIVE strip(_)
strip(s) ==
    IF s = <<>> THEN s
    ELSE IF Head(s) \in Whitespace THEN strip(Tail(s))
    ELSE IF s[Len(s)] \in Whitespace THEN strip(SubSeq(s, 1, Len(s) - 1))
    ELSE s

Digits == <<"0", "1", "2", "3", "4", "5", "6", "7", "8", "9">>

IsDigit(c) == \E d \in 1..10 : Digits[d] = c
DigitVal(c) == (CHOOSE d \in 1..10 : Digits[d] = c) - 1

\* the value of a string of decimal digits
RECURSIVE DigitsToInt(_)
DigitsToInt(s) ==
    IF s = <<>> THEN 0
    ELSE 10 * DigitsToInt(SubSeq(s, 1, Len(s) - 1)) + DigitVal(s[Len(s)])

\* str(n) of an int n >= 0
RECURSIVE NatStr(_)
NatStr(n) == IF n < 10 THEN <<Digits[n + 1]>> ELSE NatStr(n \div 10) \o <<Digits[(n % 10) + 1]>>

\* str(n) of an int
IntStr(n) == IF n < 0 THEN <<"-">> \o NatStr(-n) ELSE NatStr(n)

\* s without its trailing "0" characters
RECURSIVE StripZeros(_)
StripZeros(s) ==
    IF s # <<>> /\ s[Len(s)] = "0" THEN StripZeros(SubSeq(s, 1, Len(s) - 1)) ELSE s

\* n written with at least w digits
RECURSIVE ZeroPad(_, _)
ZeroPad(s, w) == IF Len(s) >= w THEN s ELSE ZeroPad(<<"0">> \o s, w)

\* repr of a float: shortest decimal form; exponent form below 1e-4
FloatStr(f) ==
    CASE f.k = "nan" -> <<"n", "a", "n">>
      [] f.k = "inf" -> <<"i", "n", "f">>
      [] f.k = "ninf" -> <<"-", "i", "n", "f">>
      [] OTHER ->
         LET a == IF f.v < 0 THEN -f.v ELSE f.v
             sign == IF f.v < 0 THEN <<"-">> ELSE <<>>
         IN IF a # 0 /\ a < Fine \div 10000
            THEN LET ds == NatStr(a)
                     mant == StripZeros(Tail(ds))
                     e == (RoundDigits + 1) - (Len(ds) - 1)
                 IN sign \o <<Head(ds)>>
                    \o (IF mant = <<>> THEN <<>> ELSE <<".">> \o mant)
                    \o <<"e", "-">> \o ZeroPad(NatStr(e), 2)
            ELSE LET frac == StripZeros(ZeroPad(NatStr(a % Fine), RoundDigits + 1))
                 IN sign \o NatStr(a \div Fine) \o <<".">>
                    \o (IF frac = <<>> THEN <<"0">> ELSE frac)

\* str(x)
str(x) ==
    CASE x.t = "str" -> x.s
      [] x.t = "null" -> <<"N", "o", "n", "e">>
      [] x.t = "bool" -> IF x.b THEN <<"T", "r", "u", "e">> ELSE <<"F", "a", "l", "s", "e">>
      [] x.t = "int" -> IntStr(x.n)
      [] x.t = "float" -> FloatStr(x.f)
      [] x.t = "huge" -> <<"1", "0", ".", ".", ".", "0">>
      [] x.t = "list" -> IF x.items = <<>> THEN <<"[", "]">> ELSE <<"[", ".", ".", ".", "]">>
      [] OTHER -> IF DOMAIN x.d = {} THEN <<"{", "}">> ELSE <<"{", ".", ".", ".", "}">>

\* position of the first "." in s, or 0
DotAt(s) == IF \E i \in 1..Len(s) : s[i] = "."
            THEN CHOOSE i \in 1..Len(s) : s[i] = "." /\ \A j \in 1..(i - 1) : s[j] # "."
            ELSE 0

\* the first n characters of s, padded with "0" to n characters
PadRight(s, n) == [i \in 1..n |-> IF i <= Len(s) THEN s[i] ELSE "0"]

\* float(s) of a str: surrounding whitespace is ignored; a sign, then nan, inf,
\* infinity, or decimal digits with at most one point.  Exponent forms and digits
\* beyond the resolution do not occur in the inputs of the model.
ParseFloat(s0) ==
    LET s == strip(s0)
        neg == s # <<>> /\ Head(s) = "-"
        u == IF s # <<>> /\ Head(s) \in {"-", "+"} THEN Tail(s) ELSE s
        w == lower(u)
        dot == DotAt(u)
        ip == IF dot = 0 THEN u ELSE SubSeq(u, 1, dot - 1)
        fp == IF dot = 0 THEN <<>> ELSE SubSeq(u, dot + 1, Len(u))
        num == /\ Len(ip) + Len(fp) > 0
               /\ \A i \in 1..Len(ip) : IsDigit(ip[i])
               /\ \A i \in 1..Len(fp) : IsDigit(fp[i])
        mag == DigitsToInt(ip) * Fine + DigitsToInt(PadRight(fp, RoundDigits + 1))
    IN CASE w = <<"n", "a", "n">> -> [ok |-> TRUE, f |-> NaN]
         [] w \in {<<"i", "n", "f">>, <<"i", "n", "f", "i", "n", "i", "t", "y">>} ->
                [ok |-> TRUE, f |-> IF neg THEN NegInf ELSE PosInf]
         [] num -> [ok |-> TRUE, f |-> Fin(IF neg THEN -mag ELSE mag)]
         [] OTHER -> [ok |-> FALSE, f |-> Fin(0)]

\* float(x): ok, or not ok for the TypeError and ValueError cases
float(x) ==
    CASE x.t = "float" -> [ok |-> TRUE, f |-> x.f]
      [] x.t = "int" -> [ok |-> TRUE, f |-> Fin(x.n * Fine)]
      [] x.t = "bool" -> [ok |-> TRUE, f |-> Fin(IF x.b THEN Fine ELSE 0)]
      [] x.t = "str" -> ParseFloat(x.s)
      [] OTHER -> [ok |-> FALSE, f |-> Fin(0)]

\* round(x, 6) of a finite float: to the nearest multiple of 10^-6, a tie
\* (which the inputs of the model never produce) going to the even neighbour
round(v) ==
    LET step == Fine \div (10 ^ RoundDigits)
        lo == (v \div step) * step
        r == v - lo
    IN IF 2 * r < step THEN lo
       ELSE IF 2 * r > step THEN lo + step
       ELSE IF (lo \div step) % 2 = 0 THEN lo ELSE lo + step

----------------------------------------------------------------------------
(* The adjuster's decision normaliser *)

AUTO_APPROVED == <<"a", "u", "t", "o", "_", "a", "p", "p", "r", "o", "v", "e", "d">>
NEEDS_HUMAN_REVIEW == <<"n", "e", "e", "d", "s", "_", "h", "u", "m", "a", "n", "_", "r", "e", "v", "i", "e", "w">>

\* _normalize_bbox returning None
NoBox == [present |-> FALSE, x_min |-> 0, y_min |-> 0, x_max |-> 0, y_max |-> 0]

BoxKeys == {"x_min", "y_min", "x_max", "y_max"}

\* max(0.0, min(1.0, x)), in units of 1/Fine: finite for every float
Clamp(f) == PyMax(Fin(0), PyMin(Fin(Fine), f)).v

\* a plausible slip: a box with a coordinate outside [0, 1] is refused instead
\* of clamped
_normalize_bbox_NoClamp(raw_bbox) ==
    IF raw_bbox.t # "dict" THEN NoBox
    ELSE LET c(key) == float(get(raw_bbox, key, JNull)) IN
         IF \E key \in BoxKeys : ~c(key).ok \/ c(key).f.k # "fin"
                                 \/ c(key).f.v < 0 \/ c(key).f.v > Fine
         THEN NoBox
         ELSE IF c("x_max").f.v <= c("x_min").f.v \/ c("y_max").f.v <= c("y_min").f.v
              THEN NoBox
              ELSE [present |-> TRUE,
                    x_min |-> round(c("x_min").f.v), y_min |-> round(c("y_min").f.v),
                    x_max |-> round(c("x_max").f.v), y_max |-> round(c("y_max").f.v)]

\* _normalize_bbox: None unless raw_bbox is a dict whose four coordinates
\* convert to float and, once clamped to [0, 1], span a positive extent; the
\* coordinates returned are rounded after that test.
_normalize_bbox(raw_bbox) ==
    IF raw_bbox.t # "dict" THEN NoBox
    ELSE LET c(key) == float(get(raw_bbox, key, JNull)) IN
         IF \E key \in BoxKeys : ~c(key).ok THEN NoBox
         ELSE LET x_min == Clamp(c("x_min").f)
                  y_min == Clamp(c("y_min").f)
                  x_max == Clamp(c("x_max").f)
                  y_max == Clamp(c("y_max").f)
              IN IF x_max <= x_min \/ y_max <= y_min THEN NoBox
                 ELSE [present |-> TRUE,
                       x_min |-> round(x_min), y_min |-> round(y_min),
                       x_max |-> round(x_max), y_max |-> round(y_max)]

\* a plausible slip: the decision is matched without lower()
DecisionOf_NoLower(home) ==
    LET decision == strip(str(get(home, "decision", JStr(<<>>)))) IN
    IF decision \notin {AUTO_APPROVED, NEEDS_HUMAN_REVIEW}
    THEN NEEDS_HUMAN_REVIEW ELSE decision

\* a plausible slip: a decision that matches neither value is kept
DecisionOf_NoCoerce(home) ==
    lower(strip(str(get(home, "decision", JStr(<<>>)))))

\* lines 185-187: str(home.get("decision", "")).strip().lower(), coerced
DecisionOf(home) ==
    LET decision == lower(strip(str(get(home, "decision", JStr(<<>>))))) IN
    IF decision \notin {AUTO_APPROVED, NEEDS_HUMAN_REVIEW}
    THEN NEEDS_HUMAN_REVIEW ELSE decision

\* a plausible slip: only numbers are taken as a confidence
ConfidenceOf_NumbersOnly(home) ==
    LET raw == get(home, "confidence", JInt(0)) IN
    IF raw.t \in {"int", "float"} THEN float(raw).f ELSE Fin(0)

\* lines 193-197: float(home.get("confidence", 0)), 0.0 on TypeError, ValueError
ConfidenceOf(home) ==
    LET c == float(get(home, "confidence", JInt(0))) IN
    IF c.ok THEN c.f ELSE Fin(0)

\* a plausible slip: the entries counted from 0
FallbackId_FromZero(idx) == <<"h", "o", "u", "s", "e", "-">> \o ZeroPad(NatStr(idx - 1), 3)

\* f"house-{idx:03d}"
FallbackId(idx) == <<"h", "o", "u", "s", "e", "-">> \o ZeroPad(NatStr(idx), 3)

NoReason == <<"N", "o", " ", "r", "e", "a", "s", "o", "n", " ", "p", "r", "o", "v", "i", "d", "e", "d", " ", "b", "y", " ", "m", "o", "d", "e", "l">>

\* the body of the loop, lines 185-210: the record appended for one home
NormalizeHome(home, idx) ==
    [house_id |-> str(get(home, "house_id", JStr(FallbackId(idx)))),
     decision |-> DecisionOf(home),
     has_5ft_inclusion_zone |-> get(home, "has_5ft_inclusion_zone", JNull),
     confidence |-> ConfidenceOf(home),
     reason |-> str(get(home, "reason", JStr(NoReason))),
     bbox |-> _normalize_bbox(get(home, "bbox", JNull))]

\* line 181: raw.get("homes", []) if isinstance(raw, dict) else []
HomesOf(raw) == IF raw.t = "dict" THEN get(raw, "homes", JList(<<>>)) ELSE JList(<<>>)

\* What enumerate(homes) iterates over: the items of a list, the characters of a
\* str, the keys of a dict (strs; one stands for them).  Other values are not
\* iterable.
Iterable(h) == h.t \in {"list", "str", "dict"}
ItemsOf(h) ==
    CASE h.t = "list" -> h.items
      [] h.t = "str" -> [i \in 1..Len(h.s) |-> JStr(<<h.s[i]>>)]
      [] OTHER -> IF DOMAIN h.d = {} THEN <<>> ELSE <<JStr(<<"k">>)>>

\* lines 212-222: the summary, counted on the normalised list
SummaryOf(normalized) ==
    [total_homes |-> Len(normalized),
     auto_approved_count |->
        Cardinality({i \in 1..Len(normalized) : normalized[i].decision = AUTO_APPROVED}),
     needs_human_review_count |->
        Cardinality({i \in 1..Len(normalized) : normalized[i].decision = NEEDS_HUMAN_REVIEW})]

NormError(e) ==
    [ok |-> FALSE, err |-> e,
     summary |-> [total_homes |-> 0, auto_approved_count |-> 0,
                  needs_human_review_count |-> 0],
     homes |-> <<>>]

\* the records of s that have a box, in order
RECURSIVE WithBox(_)
WithBox(s) ==
    IF s = <<>> THEN <<>>
    ELSE (IF Head(s).bbox.present THEN <<Head(s)>> ELSE <<>>) \o WithBox(Tail(s))

\* a plausible slip: a home whose box is invalid is left out of the list
_normalize_decisions_SkipInvalidBox(raw) ==
    LET homes == HomesOf(raw) IN
    IF ~Iterable(homes) THEN NormError("TypeError")
    ELSE LET items == ItemsOf(homes) IN
         IF \E i \in 1..Len(items) : items[i].t # "dict"
         THEN NormError("AttributeError")
         ELSE LET all == [i \in 1..Len(items) |-> NormalizeHome(items[i], i)]
                  normalized == WithBox(all)
              IN [ok |-> TRUE, err |-> "", summary |-> SummaryOf(normalized),
                  homes |-> normalized]

\* a plausible slip: the model's own summary is passed through when it has one
_normalize_decisions_ModelSummary(raw) ==
    LET homes == HomesOf(raw) IN
    IF ~Iterable(homes) THEN NormError("TypeError")
    ELSE LET items == ItemsOf(homes) IN
         IF \E i \in 1..Len(items) : items[i].t # "dict"
         THEN NormError("AttributeError")
         ELSE LET normalized == [i \in 1..Len(items) |-> NormalizeHome(items[i], i)]
              IN [ok |-> TRUE, err |-> "",
                  summary |-> IF raw.t = "dict" /\ "summary" \in DOMAIN raw.d
                                    /\ raw.d.summary.t = "dict"
                              THEN [key \in DOMAIN raw.d.summary.d |-> raw.d.summary.d[key].n]
                              ELSE SummaryOf(normalized),
                  homes |-> normalized]

\* float(x) raises OverflowError ("int too large to convert to float"), which
\* the handlers of TypeError and ValueError at lines 235-236 and 196-197 let
\* pass
Overflows(x) == x.t = "huge"
HomeOverflows(home) ==
    \/ Overflows(get(home, "confidence", JInt(0)))
    \/ LET raw_bbox == get(home, "bbox", JNull) IN
       raw_bbox.t = "dict" /\ \E key \in BoxKeys : Overflows(get(raw_bbox, key, JNull))

\* _normalize_decisions: the normalised result, or the exception that ends the
\* run: TypeError when homes is not iterable, and for the first item the loop
\* cannot handle AttributeError when it has no get(), OverflowError when a
\* number of it is too large for float().
_normalize_decisions(raw) ==
    LET homes == HomesOf(raw) IN
    IF ~Iterable(homes) THEN NormError("TypeError")
    ELSE LET items == ItemsOf(homes)
             bad == {i \in 1..Len(items) : items[i].t # "dict" \/ HomeOverflows(items[i])}
         IN
         IF bad # {}
         THEN IF items[CHOOSE i \in bad : \A j \in bad : i <= j].t # "dict"
              THEN NormError("AttributeError")
              ELSE NormError("OverflowError")
         ELSE LET normalized == [i \in 1..Len(items) |-> NormalizeHome(items[i], i)]
              IN [ok |-> TRUE, err |-> "", summary |-> SummaryOf(normalized),
                  homes |-> normalized]

----------------------------------------------------------------------------
(* Outputs of the reasoning service the normaliser is run on *)

\* a key that is not in the dict
Absent == [t |-> "absent"]

\* dict d with d[key] = val, or without key when val is Absent
SetField(dict, key, val) ==
    IF val.t = "absent"
    THEN JDict([k \in DOMAIN dict.d \ {key} |-> dict.d[k]])
    ELSE JDict((key :> val) @@ dict.d)

Frac(n, d) == JFloat(Fin((n * Fine) \div d))

BaseBox == JDict([x_min |-> Frac(1, 10), y_min |-> Frac(1, 10),
                  x_max |-> Frac(1, 2), y_max |-> Frac(1, 2)])

\* {"house_id": "h1", "decision": "AUTO_APPROVED", "confidence": "0.9",
\*  "bbox": {"x_min": 0.1, "y_min": 0.1, "x_max": 0.5, "y_max": 0.5}}
Scenario2Home ==
    JDict([house_id |-> JStr(<<"h", "1">>),
           decision |-> JStr(<<"A", "U", "T", "O", "_", "A", "P", "P", "R", "O", "V", "E", "D">>),
           confidence |-> JStr(<<"0", ".", "9">>),
           bbox |-> BaseBox])

Scenario2Raw == JDict([homes |-> JList(<<Scenario2Home>>)])

DecisionVals ==
    { Absent, JNull, JBool(TRUE), JInt(1), JList(<<>>),
      JStr(AUTO_APPROVED), JStr(NEEDS_HUMAN_REVIEW), JStr(<<>>),
      JStr(<<"A", "U", "T", "O", "_", "A", "P", "P", "R", "O", "V", "E", "D">>),
      JStr(<<"N", "e", "e", "d", "s", "_", "H", "u", "m", "a", "n", "_", "R", "e", "v", "i", "e", "w">>),
      JStr(<<" ", "a", "u", "t", "o", "_", "a", "p", "p", "r", "o", "v", "e", "d", "\n">>),
      JStr(<<"a", "p", "p", "r", "o", "v", "e", "d">>),
      JStr(<<"a", "u", "t", "o", "-", "a", "p", "p", "r", "o", "v", "e", "d">>),
      JStr(<<"N", "o", "n", "e">>) }

ConfidenceVals ==
    { Absent, JNull, JBool(TRUE), JInt(0), JInt(1), JInt(2), JList(<<>>),
      Frac(9, 10), Frac(3, 2), Frac(-1, 5), JFloat(NaN), JFloat(PosInf), JHuge,
      JStr(<<"0", ".", "9">>), JStr(<<" ", "1", " ">>), JStr(<<"h", "i", "g", "h">>),
      JStr(<<>>), JStr(<<"n", "a", "n">>), JStr(<<"-", "0", ".", "2">>) }

CoordVals ==
    { Absent, JNull, JStr(<<"0", ".", "3">>), JStr(<<"x">>), JInt(0), JInt(1),
      Frac(-1, 2), Frac(1, 10), JFloat(Fin(1234561)), JFloat(Fin(1234564)),
      Frac(1, 2), Frac(3, 2), JFloat(NaN), JFloat(NegInf) }

BoxVals ==
    { Absent, JNull, JList(<<>>), JStr(<<"0", ",", "0", ",", "1", ",", "1">>), JDict(<<>>) }
    \cup { SetField(SetField(BaseBox, "x_min", a), "x_max", b) : a, b \in CoordVals }
    \cup { SetField(SetField(BaseBox, "y_min", a), "y_max", b) : a, b \in CoordVals }

IdVals == { Absent, JNull, JInt(7), JStr(<<"h", "1">>), JStr(<<"a", "/", "b", " ", "c">>), JStr(<<>>) }

ReasonVals == { Absent, JNull, JStr(<<"c", "l", "e", "a", "r">>), JInt(3) }

InclusionVals == { Absent, JNull, JBool(TRUE), JBool(FALSE), JStr(<<"y", "e", "s">>), Frac(1, 2) }

\* homes that differ from Scenario2Home in one field (or in the box)
WideHomes ==
    { SetField(Scenario2Home, "decision", v) : v \in DecisionVals }
    \cup { SetField(Scenario2Home, "confidence", v) : v \in ConfidenceVals }
    \cup { SetField(Scenario2Home, "bbox", v) : v \in BoxVals }
    \cup { SetField(Scenario2Home, "house_id", v) : v \in IdVals }
    \cup { SetField(Scenario2Home, "reason", v) : v \in ReasonVals }
    \cup { SetField(Scenario2Home, "has_5ft_inclusion_zone", v) : v \in InclusionVals }

\* a home whose box is inverted (x_max <= x_min)
InvertedBoxHome ==
    JDict([house_id |-> JStr(<<"h", "2">>),
           decision |-> JStr(NEEDS_HUMAN_REVIEW),
           confidence |-> Frac(2, 5),
           reason |-> JStr(<<"s", "m", "o", "k", "e">>),
           has_5ft_inclusion_zone |-> JBool(FALSE),
           bbox |-> SetField(SetField(BaseBox, "x_min", Frac(1, 2)), "x_max", Frac(1, 10))])

\* a home with nothing but a decision
BareHome == JDict([decision |-> JStr(AUTO_APPROVED)])

\* a home that repeats the identifier h1, with an unknown decision, a worded
\* confidence and a box that sticks out of the image
OddHome ==
    JDict([house_id |-> JStr(<<"h", "1">>),
           decision |-> JStr(<<"m", "a", "y", "b", "e">>),
           confidence |-> JStr(<<"h", "i", "g", "h">>),
           bbox |-> SetField(SetField(BaseBox, "x_min", Frac(-1, 2)), "y_max", Frac(3, 2))])

ListItems == { Scenario2Home, InvertedBoxHome, BareHome, OddHome, JStr(<<"h", "1">>) }

\* the lists of at most MaxHomes items
HomeLists == UNION { [1..n -> ListItems] : n \in 0..MaxHomes }

\* the summary a model may claim, true or not
ClaimedSummary ==
    JDict([total_homes |-> JInt(99), auto_approved_count |-> JInt(99),
           needs_human_review_count |-> JInt(0)])

\* parsed outputs without a usable homes list
OddRaws ==
    { JDict([summary |-> ClaimedSummary]), JDict(<<>>),
      JList(<<Scenario2Home>>), JList(<<>>), JNull, JInt(3), JStr(<<"h", "o", "m", "e", "s">>),
      JDict([homes |-> JNull]), JDict([homes |-> JInt(1)]),
      JDict([homes |-> JStr(<<>>)]), JDict([homes |-> JStr(<<"a", "b">>)]),
      JDict([homes |-> JDict(<<>>)]), JDict([homes |-> Scenario2Home]) }

\* every parsed output the normaliser is checked on
WideRaws ==
    { JDict([homes |-> JList(l)]) : l \in HomeLists }
    \cup { JDict([homes |-> JList(l), summary |-> ClaimedSummary]) : l \in HomeLists }
    \cup { JDict([homes |-> JList(<<h>>)]) : h \in WideHomes }
    \cup OddRaws

----------------------------------------------------------------------------
(* Idle values *)

Invs == {1}

NoEvent == [key |-> <<>>, source |-> "none", rules |-> {}]
SfnIdle == [state |-> "none", key |-> <<>>, branch |-> "none"]
\* The two deployed variants of the report handler: the processor Lambda of
\* the stack and the earlier stand-alone lambda_function.
ProcVariants == {"processor", "legacy"}

\* What an object read as an image can be: bytes PIL can open or not, at most
\* or more than the size limit of _resize_image.
Images == [decodable : BOOLEAN, oversize : BOOLEAN]
NoImage == [decodable |-> FALSE, oversize |-> FALSE]
\* A report invocation: its position, its variant and key, the calls it has
\* made, the exception that ended it and the exception's message, and for
\* each earlier attempt of the task that invoked it whether its handler ran.
ProcIdle == [pc |-> "none", variant |-> "none", key |-> <<>>,
             calls |-> <<>>, err |-> "", msg |-> <<>>, image |-> NoImage,
             base_name |-> <<>>, earlier |-> <<>>]
ProcStart(variant, key) ==
    [ProcIdle EXCEPT !.pc = "lambda_handler", !.variant = variant, !.key = key]

\* the bucket and the table as an invocation finds them
NoSnapshot == [objects |-> {}, table |-> {}]
Snapshot == [objects |-> objects, table |-> table]

\* no result returned (yet); the skip marker of the adjuster
NoResult == [skipped |-> FALSE, reason |-> <<>>, key |-> <<>>,
             annotated_image_s3_uri |-> JNull, summary |-> NormError("").summary]
SkipMarker(key) ==
    [NoResult EXCEPT !.skipped = TRUE, !.key = key,
                     !.reason = <<"u", "n", "s", "u", "p", "p", "o", "r", "t", "e", "d", "-", "p", "r", "e", "f", "i", "x">>]

\* An adjuster invocation: its position, its event, the locals of
\* lambda_handler, the calls it has made to S3, Bedrock and DynamoDB, and the
\* bucket and table as they were when it began.
AdjIdle ==
    [pc |-> "none", kind |-> "none", evkey |-> <<>>, key |-> <<>>,
     image |-> NoImage, responded |-> FALSE, model_text |-> <<>>,
     raw |-> JNull, normalized |-> NormError(""),
     annotated_image_s3_uri |-> JNull, crop_uris |-> <<>>, hi |-> 0,
     timestamp |-> 0, pending |-> <<>>, put |-> 0, result |-> NoResult,
     calls |-> <<>>, before |-> NoSnapshot, err |-> ""]

Rules == {"S3ObjectCreatedRule", "ComparedObjectCreatedRule"}

\* Resting points of the three executions.  The submission chain behind
\* ReadInputJSON is followed in the executions of sub; the report stage behind
\* the read of the completion artifact is entered but not followed further.
SfnResting == {"none", "ReadInputJSON", "ProcessImageWait", "Succeeded", "Failed"}
ProcResting == {"none", "load_s3_binary", "rejected", "failed"}
AdjResting == {"none", "done", "failed", "bad_event", "skipped"}

\* nothing is being dispatched or executed
Quiet ==
    /\ ev.rules = {}
    /\ sfn.state \in SfnResting
    /\ proc.pc \in ProcResting
    /\ \A i \in DOMAIN adj : adj[i].pc \in AdjResting

----------------------------------------------------------------------------
(* Triggers *)

\* An object is written to the bucket under key k; S3 sends the Object Created
\* event to EventBridge, where both rules see it.  Executions of the previous
\* trigger have ended and their records are dropped.
ObjectCreated(k) ==
    /\ Quiet /\ now < MaxEvents
    /\ objects' = objects \cup {k}
    /\ ev' = [key |-> k, source |-> "s3", rules |-> Rules]
    /\ sfn' = SfnIdle /\ proc' = ProcIdle
    /\ adj' = [i \in DOMAIN adj |-> AdjIdle]
    /\ now' = now + 1
    /\ UNCHANGED <<seg, fn, sub, table, pil>>

\* The state machine is started by hand with an event naming key k.
StartExecution(k) ==
    /\ Quiet /\ now < MaxEvents
    /\ ev' = [key |-> k, source |-> "sfn", rules |-> {}]
    /\ sfn' = [state |-> "CheckInputFormat", key |-> k, branch |-> "none"]
    /\ proc' = ProcIdle
    /\ adj' = [i \in DOMAIN adj |-> AdjIdle]
    /\ now' = now + 1
    /\ UNCHANGED <<seg, fn, sub, objects, table, pil>>

\* A report handler, of either variant, is invoked by hand with {bucket, key}.
InvokeProcessor(k) ==
    /\ Quiet /\ now < MaxEvents
    /\ ev' = [key |-> k, source |-> "processor", rules |-> {}]
    /\ sfn' = SfnIdle
    /\ \E variant \in ProcVariants : proc' = ProcStart(variant, k)
    /\ adj' = [i \in DOMAIN adj |-> AdjIdle]
    /\ now' = now + 1
    /\ UNCHANGED <<seg, fn, sub, objects, table, pil>>

\* The event shapes _extract_bucket_key tells apart: {bucket, key}, an S3
\* notification (Records, with an URL-encoded key), Records of another source,
\* and an event of none of the shapes.
DirectKinds == {"direct", "records", "records_other", "unknown"}

\* The adjuster Lambda is invoked by hand with an event of the given shape.
InvokeAdjuster(kind, k) ==
    /\ Quiet /\ now < MaxEvents
    /\ ev' = [key |-> k, source |-> kind, rules |-> {}]
    /\ sfn' = SfnIdle /\ proc' = ProcIdle
    /\ adj' = [i \in DOMAIN adj |->
                 IF i = 1 THEN [AdjIdle EXCEPT !.pc = "lambda_handler",
                                               !.kind = kind, !.evkey = k,
                                               !.before = Snapshot]
                 ELSE AdjIdle]
    /\ now' = now + 1
    /\ UNCHANGED <<seg, fn, sub, objects, table, pil>>

----------------------------------------------------------------------------
(* EventBridge rules *)

\* a plausible slip: the descriptor pattern without its prefix
PipelineRuleMatches_AnyJson(key) ==
    \/ string_matches(key, <<"*", ".", "j", "s", "o", "n">>)
    \/ string_matches(key, <<"a", "s", "y", "n", "c", "-", "o", "u", "t", "/", "*", ".", "o", "u", "t">>)

\* the key patterns of S3ObjectCreatedRule
PipelineRuleMatches(key) ==
    \/ string_matches(key, <<"i", "n", "p", "u", "t", "s", "/", "*", ".", "j", "s", "o", "n">>)
    \/ string_matches(key, <<"a", "s", "y", "n", "c", "-", "o", "u", "t", "/", "*", ".", "o", "u", "t">>)

\* a plausible slip: the rule without its key filter
AdjusterRuleMatches_AnyKey(key) == TRUE

\* the key pattern of ComparedObjectCreatedRule
AdjusterRuleMatches(key) ==
    string_matches(key, <<"c", "o", "m", "p", "a", "r", "e", "d", "/", "*">>)

\* pipeline_stack: S3ObjectCreatedRule starts the state machine.
S3ObjectCreatedRule ==
    /\ "S3ObjectCreatedRule" \in ev.rules
    /\ ev' = [ev EXCEPT !.rules = @ \ {"S3ObjectCreatedRule"}]
    /\ sfn' = IF PipelineRuleMatches(ev.key)
              THEN [state |-> "CheckInputFormat", key |-> ev.key, branch |-> "none"]
              ELSE sfn
    /\ UNCHANGED <<seg, fn, sub, objects, table, proc, adj, pil, now>>

\* adjuster_stack: ComparedObjectCreatedRule invokes the adjuster Lambda.
ComparedObjectCreatedRule ==
    /\ "ComparedObjectCreatedRule" \in ev.rules
    /\ ev' = [ev EXCEPT !.rules = @ \ {"ComparedObjectCreatedRule"}]
    /\ adj' = IF AdjusterRuleMatches(ev.key)
              THEN [adj EXCEPT ![1] = [AdjIdle EXCEPT !.pc = "lambda_handler",
                                                      !.kind = "eventbridge",
                                                      !.evkey = ev.key,
                                                      !.before = Snapshot]]
              ELSE adj
    /\ UNCHANGED <<seg, fn, sub, objects, table, sfn, proc, pil, now>>

----------------------------------------------------------------------------
(* The Step Functions router *)

\* the first rule of the Choice: string_matches(key, "inputs/*.json")
RouterWhenInputs(key) ==
    string_matches(key, <<"i", "n", "p", "u", "t", "s", "/", "*", ".", "j", "s", "o", "n">>)

\* a plausible slip: the second rule without its prefix condition
RouterWhenAsyncOut_SuffixOnly(key) ==
    string_matches(key, <<"*", ".", "o", "u", "t">>)

\* the second rule of the Choice: and_(string_matches(key, "async-out/*"),
\* string_matches(key, "*.out"))
RouterWhenAsyncOut(key) ==
    /\ string_matches(key, <<"a", "s", "y", "n", "c", "-", "o", "u", "t", "/", "*">>)
    /\ string_matches(key, <<"*", ".", "o", "u", "t">>)

\* Choice state CheckInputFormat: the first rule that matches is taken.
CheckInputFormat ==
    /\ sfn.state = "CheckInputFormat"
    /\ sfn' = IF RouterWhenInputs(sfn.key)
              THEN [sfn EXCEPT !.state = "ReadInputJSON", !.branch = "submission"]
              ELSE IF RouterWhenAsyncOut(sfn.key)
                   THEN [sfn EXCEPT !.state = "ProcessImage", !.branch = "report"]
                   ELSE [sfn EXCEPT !.state = "UnmatchedKeyPattern",
                                    !.branch = "unmatched"]
    /\ UNCHANGED <<seg, fn, sub, objects, table, ev, proc, adj, pil, now>>

\* Pass state UnmatchedKeyPattern: the execution ends successfully.
UnmatchedKeyPattern ==
    /\ sfn.state = "UnmatchedKeyPattern"
    /\ sfn' = [sfn EXCEPT !.state = "Succeeded"]
    /\ UNCHANGED <<seg, fn, sub, objects, table, ev, proc, adj, pil, now>>

\* Task state ProcessImage: invokes the processor Lambda with {bucket, key}.
ProcessImage ==
    /\ sfn.state = "ProcessImage"
    /\ sfn' = [sfn EXCEPT !.state = "ProcessImageWait"]
    /\ proc' = ProcStart("processor", sfn.key)
    /\ UNCHANGED <<seg, fn, sub, objects, table, ev, adj, pil, now>>

\* Retry of the task state ProcessImage.  LambdaInvoke is built without
\* retry_on_service_exceptions, whose default adds a Retry to the state for
\* the errors Lambda.ServiceException, Lambda.AWSLambdaException,
\* Lambda.SdkClientException and Lambda.ClientExecutionTimeoutException: an
\* invocation the service loses, before or while the handler runs, is made
\* again with the same payload.  What the lost invocation has written stays.
ProcessImageRetry ==
    /\ sfn.state = "ProcessImageWait"
    /\ proc.pc \notin {"none", "rejected", "failed", "returned"}
    /\ Len(proc.earlier) < MaxRetries
    /\ proc' = [ProcStart("processor", sfn.key) EXCEPT
                  !.earlier = Append(proc.earlier, proc.pc # "lambda_handler")]
    /\ UNCHANGED <<seg, fn, sub, objects, table, ev, sfn, adj, pil, now>>

----------------------------------------------------------------------------
(* The processor Lambda *)

\* a plausible slip: the suffix alone decides
IsAsyncOutKey_SuffixOnly(key) == endswith(key, <<".", "o", "u", "t">>)

\* processor lambda_handler, up to its key check.  A ValueError ends the
\* invocation, and with it the ProcessImage task and the execution.
IsAsyncOutKey(key) ==
    /\ startswith(key, <<"a", "s", "y", "n", "c", "-", "o", "u", "t", "/">>)
    /\ endswith(key, <<".", "o", "u", "t">>)

\* f"Unsupported key pattern: {key}"
UnsupportedKeyMessage(key) ==
    <<"U", "n", "s", "u", "p", "p", "o", "r", "t", "e", "d", " ", "k", "e", "y", " ", "p", "a", "t", "t", "e", "r", "n", ":", " ">> \o key

\* a failed invocation fails the ProcessImage task that waits for it
TaskFailed == IF sfn.state = "ProcessImageWait" THEN [sfn EXCEPT !.state = "Failed"] ELSE sfn

processor_lambda_handler ==
    /\ proc.pc = "lambda_handler" /\ proc.variant = "processor"
    /\ IF IsAsyncOutKey(proc.key)
       THEN /\ proc' = [proc EXCEPT !.pc = "process_sam3_analysis"]
            /\ sfn' = sfn
       ELSE /\ proc' = [proc EXCEPT !.pc = "rejected", !.err = "ValueError",
                                    !.msg = UnsupportedKeyMessage(proc.key)]
            /\ sfn' = TaskFailed
    /\ UNCHANGED <<seg, fn, sub, objects, table, ev, adj, pil, now>>

\* lambda_function.lambda_handler: the same test, the error raised after the
\* branch of the supported keys.
legacy_lambda_handler ==
    /\ proc.pc = "lambda_handler" /\ proc.variant = "legacy"
    /\ proc' = IF startswith(proc.key, <<"a", "s", "y", "n", "c", "-", "o", "u", "t", "/">>)
                    /\ endswith(proc.key, <<".", "o", "u", "t">>)
               THEN [proc EXCEPT !.pc = "process_sam3_analysis"]
               ELSE [proc EXCEPT !.pc = "rejected", !.err = "ValueError",
                                 !.msg = UnsupportedKeyMessage(proc.key)]
    /\ UNCHANGED <<seg, fn, sub, objects, table, ev, sfn, adj, pil, now>>

\* a plausible slip: the failed read is recorded and the analysis goes on
processor_load_json_from_s3_Swallowed ==
    /\ proc.pc = "process_sam3_analysis"
    /\ proc' = [proc EXCEPT
                  !.calls = Append(@, [op |-> "get_object", key |-> proc.key]),
                  !.pc = "load_s3_binary", !.err = "RuntimeError"]
    /\ UNCHANGED <<seg, fn, sub, objects, table, ev, sfn, adj, pil, now>>

\* process_sam3_analysis, its first step in both variants: load_json_from_s3
\* reads the completion artifact.  A ClientError of the read (the object is
\* missing, or any other) is raised as RuntimeError; a body that is no JSON
\* raises JSONDecodeError.
processor_load_json_from_s3 ==
    /\ proc.pc = "process_sam3_analysis"
    /\ LET called == [proc EXCEPT
                        !.calls = Append(@, [op |-> "get_object", key |-> proc.key])]
       IN \/ /\ proc' = [called EXCEPT !.pc = "failed", !.err = "RuntimeError"]
             /\ sfn' = TaskFailed
          \/ /\ proc.key \in objects
             /\ \/ /\ proc' = [called EXCEPT !.pc = "failed", !.err = "JSONDecodeError"]
                   /\ sfn' = TaskFailed
                \/ /\ proc' = [called EXCEPT !.pc = "load_s3_binary"]
                   /\ sfn' = sfn
    /\ UNCHANGED <<seg, fn, sub, objects, table, ev, adj, pil, now>>

----------------------------------------------------------------------------
(* The adjuster Lambda: event decoding and prefix check *)

\* _extract_bucket_key: the key of the event, or "ValueError".
_extract_bucket_key(kind, evkey) ==
    CASE kind = "direct" -> [ok |-> TRUE, key |-> evkey]
      [] kind = "eventbridge" -> [ok |-> TRUE, key |-> unquote_plus(evkey)]
      [] kind = "records" -> [ok |-> TRUE, key |-> unquote_plus(evkey)]
      [] OTHER -> [ok |-> FALSE, key |-> <<>>]

\* a plausible slip: the prefix without its slash
IsComparedKey_NoSlash(key) == startswith(key, <<"c", "o", "m", "p", "a", "r", "e", "d">>)

\* a plausible slip: the test of the prefix left out
IsComparedKey_Unchecked(key) == startswith(key, <<>>)

\* lambda_handler's test of the key
IsComparedKey(key) == startswith(key, <<"c", "o", "m", "p", "a", "r", "e", "d", "/">>)

\* adjuster lambda_handler, up to _load_prompt.
adjuster_lambda_handler(i) ==
    /\ adj[i].pc = "lambda_handler"
    /\ LET e == _extract_bucket_key(adj[i].kind, adj[i].evkey) IN
       adj' = [adj EXCEPT ![i] =
                 IF ~e.ok THEN [@ EXCEPT !.pc = "bad_event"]
                 ELSE IF ~IsComparedKey(e.key)
                      THEN [@ EXCEPT !.pc = "skipped", !.key = e.key,
                                     !.result = SkipMarker(e.key)]
                      ELSE [@ EXCEPT !.pc = "_load_s3_binary", !.key = e.key]]
    /\ UNCHANGED <<seg, fn, sub, objects, table, ev, sfn, proc, pil, now>>

----------------------------------------------------------------------------
(* The adjuster Lambda: image read and reasoning service *)

\* lambda_handler line 407: image_bytes = _load_s3_binary(bucket, key).  The
\* read fails when the object is missing (or for any other ClientError), which
\* _load_s3_binary turns into a RuntimeError.
adjuster_load_s3_binary(i) ==
    /\ adj[i].pc = "_load_s3_binary"
    /\ LET called == [adj[i] EXCEPT
                        !.calls = Append(@, [op |-> "get_object", key |-> adj[i].key])]
       IN \/ adj' = [adj EXCEPT ![i] =
                        [called EXCEPT !.pc = "failed", !.err = "RuntimeError"]]
          \/ /\ adj[i].key \in objects
             /\ \E img \in Images :
                  adj' = [adj EXCEPT ![i] =
                            [called EXCEPT !.pc = "_invoke_bedrock", !.image = img]]
    /\ UNCHANGED <<seg, fn, sub, objects, table, ev, sfn, proc, pil, now>>

\* The text of a response is a sequence of tokens: the code-fence markers
\* (three backticks followed by json, and three backticks alone), whitespace,
\* a word (text that is no JSON), and the text of a JSON value.
FenceJson == [t |-> "fence_json"]
Fence == [t |-> "fence"]
Space == [t |-> "ws"]
Word == [t |-> "word"]
JsonText(v) == [t |-> "json", v |-> v]

\* a text content item and an item of another type
TextItem(text) == [type |-> "text", text |-> text]
OtherItem == [type |-> "tool_use", text |-> <<>>]

\* lines 165-170: "\n".join(item.get("text", "") for the text items).strip()
RECURSIVE JoinText(_)
JoinText(content) ==
    IF content = <<>> THEN <<>>
    ELSE LET rest == JoinText(Tail(content)) IN
         IF Head(content).type # "text" THEN rest
         ELSE IF \E j \in 2..Len(content) : content[j].type = "text"
              THEN Head(content).text \o <<Space>> \o rest
              ELSE Head(content).text

\* str.strip() on a token sequence
RECURSIVE StripTokens(_)
StripTokens(text) ==
    IF text = <<>> THEN <<>>
    ELSE IF Head(text) = Space THEN StripTokens(Tail(text))
    ELSE IF text[Len(text)] = Space THEN StripTokens(SubSeq(text, 1, Len(text) - 1))
    ELSE text

\* str.replace(marker, "")
RECURSIVE Without(_, _)
Without(text, marker) ==
    IF text = <<>> THEN <<>>
    ELSE IF Head(text) = marker THEN Without(Tail(text), marker)
    ELSE <<Head(text)>> \o Without(Tail(text), marker)

\* line 171: both markers are replaced by "", the result is stripped
Cleaned(model_text) == StripTokens(Without(Without(model_text, FenceJson), Fence))

\* json.loads: the text of exactly one JSON value, whitespace around it allowed
json_loads(text) ==
    LET body == StripTokens(text) IN
    IF Len(body) = 1 /\ body[1].t = "json"
    THEN [ok |-> TRUE, v |-> body[1].v]
    ELSE [ok |-> FALSE, v |-> JNull]

\* a plausible slip: a response that does not parse counts as an empty result
ParseModelText_Degraded(model_text) ==
    LET r == json_loads(Cleaned(model_text)) IN
    IF r.ok THEN r ELSE [ok |-> TRUE, v |-> JDict(<<>>)]

\* lines 171-177: the parsed response, or RuntimeError
ParseModelText(model_text) == json_loads(Cleaned(model_text))

\* a home the table cannot take as it is: a float attribute
FloatZoneHome ==
    JDict([house_id |-> JStr(<<"h", "3">>), decision |-> JStr(AUTO_APPROVED),
           has_5ft_inclusion_zone |-> Frac(1, 2), bbox |-> BaseBox])

\* a home whose identifier holds the separator of the routing_id
HashIdHome ==
    JDict([house_id |-> JStr(<<"7", "#", "h", "1">>),
           decision |-> JStr(NEEDS_HUMAN_REVIEW),
           confidence |-> Frac(1, 2),
           bbox |-> BaseBox])

\* the homes h1 and h2 judged the other way round
ReviewedH1 ==
    JDict([house_id |-> JStr(<<"h", "1">>), decision |-> JStr(NEEDS_HUMAN_REVIEW),
           confidence |-> Frac(1, 5), bbox |-> BaseBox])
ApprovedH2 ==
    JDict([house_id |-> JStr(<<"h", "2">>), decision |-> JStr(AUTO_APPROVED),
           confidence |-> Frac(4, 5)])

\* the number of held items at which table.batch_writer() (line 359, default
\* flush_amount) sends a request, and the most one request carries
FlushAmount == 25

\* the home at place j of a long list: none has a box, and the one after the
\* first FlushAmount repeats the identifier of the first
CrowdHome(j) ==
    JDict([house_id |-> JStr(<<"n">> \o NatStr(IF j > FlushAmount THEN j - FlushAmount ELSE j)),
           decision |-> JStr(IF j > FlushAmount THEN AUTO_APPROVED ELSE NEEDS_HUMAN_REVIEW)])

CrowdRaw == JDict([homes |-> JList([j \in 1..(FlushAmount + 1) |-> CrowdHome(j)])])

\* the response bodies the reasoning service is taken to return
ResponseBodies ==
    { \* scenario 2, fenced
      <<TextItem(<<FenceJson, Space, JsonText(Scenario2Raw), Space, Fence>>)>>,
      \* two homes (one without a box) under a summary that disagrees
      <<TextItem(<<JsonText(JDict([homes |-> JList(<<Scenario2Home, InvertedBoxHome>>),
                                   summary |-> ClaimedSummary]))>>)>>,
      \* two homes with the same identifier
      <<TextItem(<<JsonText(JDict([homes |-> JList(<<Scenario2Home, OddHome>>)]))>>)>>,
      \* a home with a float attribute
      <<TextItem(<<JsonText(JDict([homes |-> JList(<<FloatZoneHome>>)]))>>)>>,
      \* no JSON at all
      <<TextItem(<<Word, Space, Word>>)>>,
      \* JSON after a sentence, and JSON in a fence that names another language
      <<TextItem(<<Word, Space>>), TextItem(<<FenceJson, JsonText(Scenario2Raw), Fence>>)>>,
      <<TextItem(<<Fence, Word, Space, JsonText(Scenario2Raw), Space, Fence>>)>>,
      \* no text item
      <<OtherItem>>,
      \* an object without homes, and a top-level list
      <<TextItem(<<JsonText(JDict([summary |-> ClaimedSummary]))>>)>>,
      <<OtherItem, TextItem(<<Fence, JsonText(JList(<<Scenario2Home>>)), Fence>>)>>,
      \* homes: null
      <<TextItem(<<JsonText(JDict([homes |-> JNull]))>>)>> }

\* the response bodies of the run on a crowded image: more homes than one
\* request of the batch writer carries, and two homes
CrowdBodies ==
    { <<TextItem(<<JsonText(CrowdRaw)>>)>>,
      <<TextItem(<<JsonText(JDict([homes |-> JList(<<Scenario2Home, InvertedBoxHome>>),
                                   summary |-> ClaimedSummary]))>>)>> }

\* the response bodies of the runs that share the store: one home, two homes,
\* the two homes judged the other way round, an identifier with a # in it
RoutingBodies ==
    { <<TextItem(<<FenceJson, Space, JsonText(Scenario2Raw), Space, Fence>>)>>,
      <<TextItem(<<JsonText(JDict([homes |-> JList(<<Scenario2Home, InvertedBoxHome>>),
                                   summary |-> ClaimedSummary]))>>)>>,
      <<TextItem(<<JsonText(JDict([homes |-> JList(<<ReviewedH1, ApprovedH2>>)]))>>)>>,
      <<TextItem(<<JsonText(JDict([homes |-> JList(<<HashIdHome>>)]))>>)>> }

\* lambda_handler line 408: raw_model_output = _invoke_bedrock(...).
\* _resize_image raises when the image is over the limit and Image is not
\* defined or cannot open the bytes, and its downscale loop raises once a side
\* of the image has no pixel left; invoke_model may raise; a text that does not
\* parse raises RuntimeError.
invoke_bedrock(i, bodies) ==
    /\ adj[i].pc = "_invoke_bedrock"
    /\ \/ /\ adj[i].image.oversize
          /\ \E e \in IF ~pil THEN {"NameError"}
                      ELSE IF ~adj[i].image.decodable THEN {"UnidentifiedImageError"}
                      ELSE {"ValueError"} :
               adj' = [adj EXCEPT ![i] = [@ EXCEPT !.pc = "failed", !.err = e]]
       \/ /\ ~adj[i].image.oversize \/ (pil /\ adj[i].image.decodable)
          /\ LET called == [adj[i] EXCEPT
                              !.calls = Append(@, [op |-> "invoke_model", key |-> adj[i].key])]
             IN \/ adj' = [adj EXCEPT ![i] =
                              [called EXCEPT !.pc = "failed", !.err = "ClientError"]]
                \/ \E content \in bodies :
                     LET model_text == StripTokens(JoinText(content))
                         r == ParseModelText(model_text)
                     IN adj' = [adj EXCEPT ![i] =
                                  IF r.ok
                                  THEN [called EXCEPT !.pc = "_normalize_decisions",
                                                      !.responded = TRUE,
                                                      !.model_text = model_text,
                                                      !.raw = r.v]
                                  ELSE [called EXCEPT !.pc = "failed",
                                                      !.responded = TRUE,
                                                      !.model_text = model_text,
                                                      !.err = "RuntimeError"]]
    /\ UNCHANGED <<seg, fn, sub, objects, table, ev, sfn, proc, pil, now>>

adjuster_invoke_bedrock(i) == invoke_bedrock(i, ResponseBodies)

----------------------------------------------------------------------------
(* The adjuster Lambda: normalisation *)

\* lambda_handler line 409: normalized = _normalize_decisions(raw_model_output);
\* an exception ends the invocation.
adjuster_normalize(i) ==
    /\ adj[i].pc = "_normalize_decisions"
    /\ LET n == _normalize_decisions(adj[i].raw) IN
       adj' = [adj EXCEPT ![i] =
                 IF n.ok
                 THEN [@ EXCEPT !.pc = "_save_visual_artifacts", !.normalized = n]
                 ELSE [@ EXCEPT !.pc = "failed", !.err = n.err]]
    /\ UNCHANGED <<seg, fn, sub, objects, table, ev, sfn, proc, pil, now>>

----------------------------------------------------------------------------
(* The adjuster Lambda: artifacts *)

CropPrefix == <<"r", "o", "u", "t", "i", "n", "g", "-", "a", "r", "t", "i", "f", "a", "c", "t", "s", "/", "c", "r", "o", "p", "s", "/">>
AnnotatedPrefix == <<"r", "o", "u", "t", "i", "n", "g", "-", "a", "r", "t", "i", "f", "a", "c", "t", "s", "/", "a", "n", "n", "o", "t", "a", "t", "e", "d", "/">>
AnnotatedSuffix == <<".", "a", "n", "n", "o", "t", "a", "t", "e", "d", ".", "p", "n", "g">>
PngSuffix == <<".", "p", "n", "g">>

\* f"s3://{bucket}/{key}", the one bucket being named b
S3Uri(key) == <<"s", "3", ":", "/", "/", "b", "/">> \o key

\* the length cleaned[:120] cuts to
MaxKeyComponent == 120

\* the characters re.sub(r"[^A-Za-z0-9._-]", "_", value) keeps
IsSafeChar(c) ==
    \/ \E j \in 1..26 : c = UpperCase[j] \/ c = LowerCase[j]
    \/ IsDigit(c)
    \/ c \in {".", "_", "-"}

\* _sanitize_key_component
_sanitize_key_component(value) ==
    LET cleaned == [j \in 1..Len(value) |-> IF IsSafeChar(value[j]) THEN value[j] ELSE "_"]
        cut == IF Len(cleaned) > MaxKeyComponent
               THEN SubSeq(cleaned, 1, MaxKeyComponent) ELSE cleaned
    IN IF cut = <<>> THEN <<"h", "o", "m", "e">> ELSE cut

\* line 317: the key of the crop of one home
CropKey(image_key, house_id) ==
    CropPrefix \o image_key \o <<"/">> \o _sanitize_key_component(house_id) \o PngSuffix

\* line 336: the key of the annotated overview
AnnotatedKey(image_key) == AnnotatedPrefix \o image_key \o AnnotatedSuffix

\* the next home from position j on that has a box (the loop skips the others)
FirstBoxed(homes, j) ==
    IF \E m \in j..Len(homes) : homes[m].bbox.present
    THEN CHOOSE m \in j..Len(homes) :
            /\ homes[m].bbox.present
            /\ \A n \in j..(m - 1) : ~homes[n].bbox.present
    ELSE Len(homes) + 1

\* _save_visual_artifacts, lines 290-306: without PIL, or with bytes PIL cannot
\* open, the stage returns (None, {}); otherwise the loop over the homes begins.
adjuster_save_visual_artifacts(i) ==
    /\ adj[i].pc = "_save_visual_artifacts"
    /\ adj' = [adj EXCEPT ![i] =
                 IF ~pil \/ ~adj[i].image.decodable
                 THEN [@ EXCEPT !.pc = "_write_routing_results"]
                 ELSE [@ EXCEPT !.pc = "crop",
                                !.hi = FirstBoxed(adj[i].normalized.homes, 1)]]
    /\ UNCHANGED <<seg, fn, sub, objects, table, ev, sfn, proc, pil, now>>

\* lines 307-334: one pass of the loop for a home with a box: the crop is put
\* under its key and its URI recorded under the home's identifier.
adjuster_put_crop(i) ==
    /\ adj[i].pc = "crop"
    /\ adj[i].hi <= Len(adj[i].normalized.homes)
    /\ LET home == adj[i].normalized.homes[adj[i].hi]
           crop_key == CropKey(adj[i].key, home.house_id)
           called == [adj[i] EXCEPT
                        !.calls = Append(@, [op |-> "put_object", key |-> crop_key])]
       IN \/ /\ objects' = objects \cup {crop_key}
             /\ adj' = [adj EXCEPT ![i] =
                          [called EXCEPT
                             !.crop_uris = (home.house_id :> S3Uri(crop_key)) @@ @,
                             !.hi = FirstBoxed(adj[i].normalized.homes, adj[i].hi + 1)]]
          \/ /\ objects' = objects
             /\ adj' = [adj EXCEPT ![i] =
                          [called EXCEPT !.pc = "failed", !.err = "ClientError"]]
    /\ UNCHANGED <<seg, fn, sub, table, ev, sfn, proc, pil, now>>

\* lines 336-346: after the loop the annotated overview is put, boxes or none.
adjuster_put_annotated(i) ==
    /\ adj[i].pc = "crop"
    /\ adj[i].hi > Len(adj[i].normalized.homes)
    /\ LET annotated_key == AnnotatedKey(adj[i].key)
           called == [adj[i] EXCEPT
                        !.calls = Append(@, [op |-> "put_object", key |-> annotated_key])]
       IN \/ /\ objects' = objects \cup {annotated_key}
             /\ adj' = [adj EXCEPT ![i] =
                          [called EXCEPT
                             !.pc = "_write_routing_results",
                             !.annotated_image_s3_uri = JStr(S3Uri(annotated_key))]]
          \/ /\ objects' = objects
             /\ adj' = [adj EXCEPT ![i] =
                          [called EXCEPT !.pc = "failed", !.err = "ClientError"]]
    /\ UNCHANGED <<seg, fn, sub, table, ev, sfn, proc, pil, now>>

----------------------------------------------------------------------------
(* The adjuster Lambda: routing table *)

\* _bbox_to_dynamodb_map: the coordinates as strings, or None
_bbox_to_dynamodb_map(bbox) ==
    IF ~bbox.present THEN JNull
    ELSE JDict([x_min |-> JStr(FloatStr(Fin(bbox.x_min))),
                y_min |-> JStr(FloatStr(Fin(bbox.y_min))),
                x_max |-> JStr(FloatStr(Fin(bbox.x_max))),
                y_max |-> JStr(FloatStr(Fin(bbox.y_max)))])

\* a plausible slip: the creation time made part of the primary key
RoutingItem_KeyedByTime(image_key, home, annotated_image_s3_uri, crop_uris, timestamp) ==
    [routing_id |-> image_key \o <<"#">> \o home.house_id \o <<"#", ToString(timestamp)>>,
     source_image_uri |-> S3Uri(image_key),
     house_id |-> home.house_id,
     decision |-> home.decision,
     has_5ft_inclusion_zone |-> home.has_5ft_inclusion_zone,
     confidence |-> FloatStr(home.confidence),
     reason |-> home.reason,
     bbox |-> _bbox_to_dynamodb_map(home.bbox),
     home_crop_s3_uri |-> IF home.house_id \in DOMAIN crop_uris
                          THEN JStr(crop_uris[home.house_id]) ELSE JNull,
     annotated_image_s3_uri |-> annotated_image_s3_uri,
     created_at |-> timestamp]

\* lines 361-375: the item put for one home
RoutingItem(image_key, home, annotated_image_s3_uri, crop_uris, timestamp) ==
    [routing_id |-> image_key \o <<"#">> \o home.house_id,
     source_image_uri |-> S3Uri(image_key),
     house_id |-> home.house_id,
     decision |-> home.decision,
     has_5ft_inclusion_zone |-> home.has_5ft_inclusion_zone,
     confidence |-> FloatStr(home.confidence),
     reason |-> home.reason,
     bbox |-> _bbox_to_dynamodb_map(home.bbox),
     home_crop_s3_uri |-> IF home.house_id \in DOMAIN crop_uris
                          THEN JStr(crop_uris[home.house_id]) ELSE JNull,
     annotated_image_s3_uri |-> annotated_image_s3_uri,
     created_at |-> timestamp]

\* the items one invocation hands to the batch writer, in list order
RoutingItems(a) ==
    [j \in 1..Len(a.normalized.homes) |->
        RoutingItem(a.key, a.normalized.homes[j], a.annotated_image_s3_uri,
                    a.crop_uris, a.timestamp)]

\* lines 415-421: the result lambda_handler returns
Returned(a) ==
    [skipped |-> FALSE, reason |-> <<>>, key |-> a.key,
     annotated_image_s3_uri |-> a.annotated_image_s3_uri,
     summary |-> a.normalized.summary]

\* The loop of lines 360-375 as far as it runs without a request: the homes
\* after the first put ones are handed to the writer until it holds
\* FlushAmount items or the list ends.
Handed(buffer, put, n) ==
    LET room == IF Len(buffer) >= FlushAmount THEN 0 ELSE FlushAmount - Len(buffer)
        k == IF n - put < room THEN n - put ELSE room
    IN [buffer |-> buffer \o [j \in 1..k |-> put + j], put |-> put + k]

\* _write_routing_results, lines 356-375: the timestamp is taken and the homes
\* are handed to the batch writer, which holds the items until it has
\* FlushAmount of them or the block ends; with no home nothing is sent and
\* lambda_handler returns.
adjuster_write_routing_results(i) ==
    /\ adj[i].pc = "_write_routing_results"
    /\ LET h == Handed(<<>>, 0, Len(adj[i].normalized.homes)) IN
       adj' = [adj EXCEPT ![i] =
                 IF adj[i].normalized.homes = <<>>
                 THEN [@ EXCEPT !.pc = "done", !.timestamp = now,
                                !.result = Returned(adj[i])]
                 ELSE [@ EXCEPT !.pc = "batch_write_item", !.timestamp = now,
                                !.pending = h.buffer, !.put = h.put]]
    /\ UNCHANGED <<seg, fn, sub, objects, table, ev, sfn, proc, pil, now>>

\* put of an item: it replaces the item of the same routing_id
PutItem(t, item) == {x \in t : x.routing_id # item.routing_id} \cup {item}

\* a plausible slip: the records of the image are cleared before the puts
PutItems_ReplaceImage(t, items, S) ==
    {x \in t : \A j \in S : x.source_image_uri # items[j].source_image_uri}
        \cup {items[j] : j \in S}

\* the puts of the items at the places S, in list order
PutItems(t, items, S) ==
    LET ids == {items[j].routing_id : j \in S}
        last == {j \in S : \A m \in S : items[m].routing_id = items[j].routing_id => m <= j}
    IN {x \in t : x.routing_id \notin ids} \cup {items[j] : j \in last}

\* what a BatchWriteItem request may leave unprocessed: nothing, or one of the
\* items sent (of two or more)
Unprocessed(send) ==
    {<<>>} \cup {<<send[p]>> : p \in {q \in DOMAIN send : Len(send) > 1}}

\* One request of the batch writer, sent in the loop when FlushAmount items are
\* held and at the end of the block while any is held: BatchWriteItem with the
\* first FlushAmount held items.  The serializer refuses a float (TypeError);
\* the service refuses a request that names a key twice and may fail otherwise
\* (ClientError); it may also leave an item unprocessed, which the writer holds
\* for its next request.  The loop then goes on, and after the last request
\* lambda_handler returns.
adjuster_batch_write_item(i) ==
    /\ adj[i].pc = "batch_write_item"
    /\ LET items == RoutingItems(adj[i])
           buffer == adj[i].pending
           cut == IF Len(buffer) < FlushAmount THEN Len(buffer) ELSE FlushAmount
           send == SubSeq(buffer, 1, cut)
           rest == SubSeq(buffer, cut + 1, Len(buffer))
           called == [adj[i] EXCEPT
                        !.calls = Append(@, [op |-> "batch_write_item", key |-> adj[i].key])]
       IN \/ /\ \E p \in DOMAIN send : items[send[p]].has_5ft_inclusion_zone.t = "float"
             /\ table' = table
             /\ adj' = [adj EXCEPT ![i] = [@ EXCEPT !.pc = "failed", !.err = "TypeError"]]
          \/ /\ \A p \in DOMAIN send : items[send[p]].has_5ft_inclusion_zone.t # "float"
             /\ table' = table
             /\ adj' = [adj EXCEPT ![i] =
                          [called EXCEPT !.pc = "failed", !.err = "ClientError"]]
          \/ /\ \A p \in DOMAIN send : items[send[p]].has_5ft_inclusion_zone.t # "float"
             /\ Cardinality({items[send[p]].routing_id : p \in DOMAIN send}) = Len(send)
             /\ \E left \in Unprocessed(send) :
                  LET h == Handed(rest \o left, adj[i].put, Len(items)) IN
                  /\ table' = PutItems(table, items,
                                       {send[p] : p \in DOMAIN send} \ {left[p] : p \in DOMAIN left})
                  /\ adj' = [adj EXCEPT ![i] =
                               IF h.buffer = <<>>
                               THEN [called EXCEPT !.pc = "done", !.pending = <<>>,
                                                   !.put = h.put,
                                                   !.result = Returned(adj[i])]
                               ELSE [called EXCEPT !.pending = h.buffer, !.put = h.put]]
    /\ UNCHANGED <<seg, fn, sub, objects, ev, sfn, proc, pil, now>>

----------------------------------------------------------------------------
(* The submission chain of the state machine *)

\* the executions of the chain that are followed
Submissions == {1, 2}

\* the values States.UUID() can return
Tokens == { <<"u", "1">>, <<"u", "2">>, <<"u", "3">> }

\* the state data ParseInputJSON builds (nothing yet)
NoInput ==
    [bucket |-> <<>>, before_image |-> <<>>, after_image |-> <<>>,
     compared_output |-> <<>>, text |-> <<>>, payloadKey |-> <<>>]

\* An execution of the chain: its state, the key of its event, $.s3Object
\* (ParsedBody), the token States.UUID() gave it, its state data from
\* ParseInputJSON on, the service calls it has made and the error that ended it.
SubIdle ==
    [state |-> "none", key |-> <<>>, ParsedBody |-> JNull, token |-> <<>>,
     input |-> NoInput, calls |-> <<>>, err |-> ""]

\* a service call of the chain: the action, the key or location it names and
\* the body it carries
SubCall(op, key, body) == [op |-> op, key |-> key, body |-> body]

\* the descriptors under inputs/ and what an object there may hold
SubmitKeys == { <<"i", "n", "p", "u", "t", "s", "/", "c", "a", "s", "e", "1", ".", "j", "s", "o", "n">>,
                <<"i", "n", "p", "u", "t", "s", "/", "c", "a", "s", "e", "2", ".", "j", "s", "o", "n">> }

Case1 ==
    JDict([before |-> JStr(<<"a", ".", "p", "n", "g">>), after |-> JStr(<<"b", ".", "p", "n", "g">>),
           compared_output |-> JStr(<<"a", "_", "b", ".", "p", "n", "g">>)])

DescriptorBodies ==
    { <<JsonText(Case1)>>,
      <<Space, JsonText(Case1), Space>>,
      \* no after image
      <<JsonText(JDict([before |-> JStr(<<"a", ".", "p", "n", "g">>),
                        compared_output |-> JStr(<<"a", "_", "b", ".", "p", "n", "g">>)]))>>,
      \* a list, and no JSON at all
      <<JsonText(JList(<<JStr(<<"a", ".", "p", "n", "g">>)>>))>>,
      <<Word>> }

\* S3ObjectCreatedRule starts an execution for a new object under inputs/ and
\* the Choice sends it down the chain that begins with ReadInputJSON.  Nothing
\* holds a second execution back while the first one runs.
StartSubmission(e, k) ==
    /\ sub[e].state = "none"
    /\ \A x \in 1..(e - 1) : sub[x].state # "none"
    /\ k \in objects /\ PipelineRuleMatches(k) /\ RouterWhenInputs(k)
    /\ sub' = [sub EXCEPT ![e] = [SubIdle EXCEPT !.state = "ReadInputJSON", !.key = k]]
    /\ UNCHANGED <<seg, fn, objects, table, ev, sfn, proc, adj, pil, now>>

\* ReadInputJSON, lines 69-79: s3:getObject of the event's key; the result
\* selector parses the body with States.StringToJson.  A failed call or a body
\* that is no JSON fails the execution (the task has no Retry and no Catch).
ReadInputJSON(e) ==
    /\ sub[e].state = "ReadInputJSON"
    /\ LET called == [sub[e] EXCEPT
                        !.calls = Append(@, SubCall("getObject", sub[e].key, NoInput))]
       IN \/ sub' = [sub EXCEPT ![e] =
                        [called EXCEPT !.state = "Failed", !.err = "S3.S3Exception"]]
          \/ /\ sub[e].key \in objects
             /\ \E body \in DescriptorBodies :
                  LET r == json_loads(body) IN
                  sub' = [sub EXCEPT ![e] =
                            IF r.ok
                            THEN [called EXCEPT !.state = "ParseInputJSON",
                                                !.ParsedBody = r.v]
                            ELSE [called EXCEPT !.state = "Failed",
                                                !.err = "States.Runtime"]]
    /\ UNCHANGED <<seg, fn, objects, table, ev, sfn, proc, adj, pil, now>>

\* States.Format('s3://{}/images/{}', bucket, name), the one bucket being b
ImageRef(name) == S3Uri(<<"i", "m", "a", "g", "e", "s", "/">> \o name)

\* States.Format('s3://{}/compared/{}', bucket, name)
ComparedRef(name) == S3Uri(<<"c", "o", "m", "p", "a", "r", "e", "d", "/">> \o name)

\* line 88: "text": "house, building, roof"
QueryText == <<"h", "o", "u", "s", "e", ",", " ", "b", "u", "i", "l", "d", "i", "n", "g", ",", " ", "r", "o", "o", "f">>

\* a plausible slip: the key made from a name fixed when the stack is built
PayloadKey_Fixed(token) == <<"p", "a", "y", "l", "o", "a", "d", "/">> \o <<"r", "e", "q", "u", "e", "s", "t">> \o <<".", "j", "s", "o", "n">>

\* line 89: States.Format('payload/{}.json', States.UUID())
PayloadKey(token) == <<"p", "a", "y", "l", "o", "a", "d", "/">> \o token \o <<".", "j", "s", "o", "n">>

\* the paths ParseInputJSON reads are there and hold strings
HasPaths(parsed) ==
    /\ parsed.t = "dict"
    /\ \A f \in {"before", "after", "compared_output"} :
          f \in DOMAIN parsed.d /\ parsed.d[f].t = "str"

\* ParseInputJSON, lines 81-91: the Pass state replaces the state data by its
\* parameters; States.UUID() returns a token it has not returned before.  A
\* path that is not in the descriptor fails the execution.
ParseInputJSON(e) ==
    /\ sub[e].state = "ParseInputJSON"
    /\ IF ~HasPaths(sub[e].ParsedBody)
       THEN sub' = [sub EXCEPT ![e] = [@ EXCEPT !.state = "Failed", !.err = "States.Runtime"]]
       ELSE \E token \in Tokens \ {sub[x].token : x \in DOMAIN sub} :
              sub' = [sub EXCEPT ![e] =
                        [@ EXCEPT !.state = "CreatePayload",
                                  !.token = token,
                                  !.input = [bucket |-> <<"b">>,
                                             before_image |-> ImageRef(sub[e].ParsedBody.d.before.s),
                                             after_image |-> ImageRef(sub[e].ParsedBody.d.after.s),
                                             compared_output |-> ComparedRef(sub[e].ParsedBody.d.compared_output.s),
                                             text |-> QueryText,
                                             payloadKey |-> PayloadKey(token)]]]
    /\ UNCHANGED <<seg, fn, objects, table, ev, sfn, proc, adj, pil, now>>

\* CreatePayload, lines 93-102: s3:putObject of the whole state data under
\* $.payloadKey.
CreatePayload(e) ==
    /\ sub[e].state = "CreatePayload"
    /\ LET called == [sub[e] EXCEPT
                        !.calls = Append(@, SubCall("putObject", sub[e].input.payloadKey,
                                                    sub[e].input))]
       IN \/ /\ objects' = objects \cup {sub[e].input.payloadKey}
             /\ sub' = [sub EXCEPT ![e] = [called EXCEPT !.state = "CallSAM3"]]
          \/ /\ objects' = objects
             /\ sub' = [sub EXCEPT ![e] =
                          [called EXCEPT !.state = "Failed", !.err = "S3.S3Exception"]]
    /\ UNCHANGED <<seg, fn, table, ev, sfn, proc, adj, pil, now>>

\* a plausible slip: the descriptor's before image given as the input
InputLocation_BeforeImage(input) == input.before_image

\* line 109: States.Format('s3://{}/{}', $.bucket, $.payloadKey)
InputLocation(input) == S3Uri(input.payloadKey)

\* CallSAM3, lines 104-114: sagemakerruntime:invokeEndpointAsync with the
\* payload's location; the call returns when the request is queued, and the
\* state has no next state: the execution ends.
CallSAM3(e) ==
    /\ sub[e].state = "CallSAM3"
    /\ LET called == [sub[e] EXCEPT
                        !.calls = Append(@, SubCall("invokeEndpointAsync",
                                                    InputLocation(sub[e].input), NoInput))]
       IN \/ sub' = [sub EXCEPT ![e] = [called EXCEPT !.state = "Succeeded"]]
          \/ sub' = [sub EXCEPT ![e] =
                       [called EXCEPT !.state = "Failed",
                                      !.err = "SageMakerRuntime.SageMakerRuntimeException"]]
    /\ UNCHANGED <<seg, fn, objects, table, ev, sfn, proc, adj, pil, now>>

----------------------------------------------------------------------------
(* The segmentation endpoint (inference.py behind the asynchronous endpoint) *)

\* A request of the endpoint: its position, the payload it was given, the
\* inference id SageMaker gave it, the S3 calls it has made, the error that
\* ended it.
SegIdle == [pc |-> "none", input |-> NoInput, id |-> <<>>, calls |-> <<>>, err |-> ""]

\* the inference ids SageMaker may give a request
InferenceIds == { <<"i", "1">>, <<"i", "2">> }

\* _parse_s3_uri, lines 8-15, and the unpacking of its result: the key of
\* s3://bucket/key
_parse_s3_uri(s3_uri) ==
    LET rest == SubSeq(s3_uri, 6, Len(s3_uri))
        slashes == {p \in DOMAIN rest : rest[p] = "/"}
    IN IF ~startswith(s3_uri, <<"s", "3", ":", "/", "/">>) \/ slashes = {}
       THEN [ok |-> FALSE, key |-> <<>>]
       ELSE LET p == CHOOSE q \in slashes : \A r \in slashes : q <= r
            IN [ok |-> TRUE, key |-> SubSeq(rest, p + 1, Len(rest))]

\* pipeline_stack lines 221-222: s3_output_path and s3_failure_path of the
\* endpoint; SageMaker names the object after the inference id
OutputKey(id) == <<"a", "s", "y", "n", "c", "-", "o", "u", "t", "/">> \o id \o <<".", "o", "u", "t">>
FailureKey(id) == <<"a", "s", "y", "n", "c", "-", "f", "a", "i", "l", "u", "r", "e", "/">> \o id \o <<"-", "e", "r", "r", "o", "r", ".", "o", "u", "t">>

\* input_fn, lines 27-59: the endpoint takes the queued request, whose body is
\* the payload object; both images are read and opened, any failure there is a
\* ValueError.
input_fn(e) ==
    /\ sub[e].state = "Succeeded" /\ seg[e].pc = "none"
    /\ \E id \in InferenceIds \ {seg[x].id : x \in DOMAIN seg} :
         LET input == sub[e].input
             before == _parse_s3_uri(input.before_image)
             after == _parse_s3_uri(input.after_image)
             taken == [SegIdle EXCEPT !.input = input, !.id = id]
             read1 == [taken EXCEPT !.calls = Append(@, [op |-> "get_object", key |-> before.key])]
             read2 == [read1 EXCEPT !.calls = Append(@, [op |-> "get_object", key |-> after.key])]
         IN \/ seg' = [seg EXCEPT ![e] = [read1 EXCEPT !.pc = "failed", !.err = "ValueError"]]
            \/ /\ before.ok /\ before.key \in objects
               /\ seg' = [seg EXCEPT ![e] = [read2 EXCEPT !.pc = "failed", !.err = "ValueError"]]
            \/ /\ before.ok /\ before.key \in objects
               /\ after.ok /\ after.key \in objects
               /\ _parse_s3_uri(input.compared_output).ok
               /\ seg' = [seg EXCEPT ![e] = [read2 EXCEPT !.pc = "predict_fn"]]
    /\ UNCHANGED <<fn, sub, objects, table, ev, sfn, proc, adj, pil, now>>

\* what predict_fn returns, lines 141-145
Prediction(input) ==
    [compare |-> input.compared_output, before |-> input.before_image,
     after |-> input.after_image]

\* predict_fn, lines 107-145: the masks of both images are compared and
\* _save_image_to_s3 (line 139) puts the comparison image under the
\* compared_output location of the request; S3 sends the Object Created event
\* of that object.  The inference or the put may raise.
predict_fn(e) ==
    /\ seg[e].pc = "predict_fn"
    /\ LET key == _parse_s3_uri(seg[e].input.compared_output).key
           called == [seg[e] EXCEPT !.calls = Append(@, [op |-> "put_object", key |-> key])]
       IN \/ /\ seg' = [seg EXCEPT ![e] = [@ EXCEPT !.pc = "failed", !.err = "RuntimeError"]]
             /\ UNCHANGED <<objects, ev, now>>
          \/ /\ seg' = [seg EXCEPT ![e] = [called EXCEPT !.pc = "failed", !.err = "ClientError"]]
             /\ UNCHANGED <<objects, ev, now>>
          \/ /\ ev.rules = {}
             /\ seg' = [seg EXCEPT ![e] = [called EXCEPT !.pc = "output_fn"]]
             /\ objects' = objects \cup {key}
             /\ ev' = [key |-> key, source |-> "s3", rules |-> Rules]
             /\ now' = now + 1
    /\ UNCHANGED <<fn, sub, table, sfn, proc, adj, pil>>

\* output_fn, lines 203-205, and the endpoint around it: the prediction is
\* written as JSON under async-out/, the error of a failed request under
\* async-failure/; S3 sends the Object Created event of the object.
async_output(e) ==
    /\ seg[e].pc \in {"output_fn", "failed"}
    /\ ev.rules = {}
    /\ LET key == IF seg[e].pc = "output_fn" THEN OutputKey(seg[e].id)
                  ELSE FailureKey(seg[e].id)
       IN /\ objects' = objects \cup {key}
          /\ ev' = [key |-> key, source |-> "s3", rules |-> Rules]
          /\ seg' = [seg EXCEPT ![e] =
                       [@ EXCEPT !.pc = IF seg[e].pc = "output_fn" THEN "completed"
                                        ELSE "reported"]]
    /\ now' = now + 1
    /\ UNCHANGED <<fn, sub, table, sfn, proc, adj, pil>>

\* the completion artifacts the endpoint has written, and what one holds
Completed(key) == {e \in DOMAIN seg : seg[e].pc = "completed" /\ OutputKey(seg[e].id) = key}
sam3_output(key) == Prediction(seg[CHOOSE e \in Completed(key) : TRUE].input)

----------------------------------------------------------------------------
(* The processor Lambda: analysis and report *)

\* os.path.basename: what follows the last slash
basename(p) ==
    LET slashes == {q \in DOMAIN p : p[q] = "/"}
    IN IF slashes = {} THEN p
       ELSE SubSeq(p, (CHOOSE q \in slashes : \A r \in slashes : r <= q) + 1, Len(p))

\* os.path.splitext(p)[0]: p without its extension; dots that lead the name
\* begin no extension
splitext(p) ==
    LET lead == {q \in DOMAIN p : \A r \in 1..q : p[r] = "."}
        dots == {q \in DOMAIN p : p[q] = "." /\ q \notin lead}
    IN IF dots = {} THEN p
       ELSE SubSeq(p, 1, (CHOOSE q \in dots : \A r \in dots : r <= q) - 1)

\* str.replace(old, ""), old not empty
RECURSIVE Removed(_, _)
Removed(s, old) ==
    IF Len(s) < Len(old) THEN s
    ELSE IF startswith(s, old) THEN Removed(SubSeq(s, Len(old) + 1, Len(s)), old)
    ELSE <<Head(s)>> \o Removed(Tail(s), old)

\* strftime("%Y-%m-%d-%H-%M-%S") of the clock: one text per second
strftime(t) == ZeroPad(NatStr(t), 2)

\* process_sam3_analysis, lines 136-148: the base name of the outputs
BaseName(before_image, key, t) ==
    LET image_name == Removed(Removed(splitext(basename(before_image)), <<"-", "b", "e", "f", "o", "r", "e">>), <<"_", "b", "e", "f", "o", "r", "e">>)
        descriptive_name == IF before_image # <<>> THEN <<"p", "a", "l", "i", "s", "a", "d", "e", "s", "-", "f", "i", "r", "e", "-">> \o image_name
                            ELSE splitext(basename(key))
    IN descriptive_name \o <<"-", "-">> \o strftime(t)

LlmOutputKey(base_name) == <<"l", "l", "m", "_", "o", "u", "t", "p", "u", "t", "/">> \o base_name \o <<".", "t", "x", "t">>
MarkdownKey(base_name) == <<"m", "a", "r", "k", "d", "o", "w", "n", "/">> \o base_name \o <<".", "m", "d">>

\* a read or write of the report handler
ProcCall(op, key) == [op |-> op, key |-> key]

\* process_sam3_analysis line 132: load_s3_binary(sam3_output["compare"]),
\* lines 46-51; the completion artifact is one the endpoint wrote.
processor_load_s3_binary ==
    /\ proc.pc = "load_s3_binary" /\ proc.variant = "processor"
    /\ Completed(proc.key) # {}
    /\ LET uri == _parse_s3_uri(sam3_output(proc.key).compare)
           called == [proc EXCEPT !.calls = Append(@, ProcCall("get_object", uri.key))]
       IN \/ /\ proc' = [called EXCEPT !.pc = "failed", !.err = "ClientError"]
             /\ sfn' = TaskFailed
          \/ /\ uri.ok /\ uri.key \in objects
             /\ \E image \in Images :
                  proc' = [called EXCEPT !.pc = "call_bedrock", !.image = image]
             /\ sfn' = sfn
    /\ UNCHANGED <<seg, fn, sub, objects, table, ev, adj, pil, now>>

\* call_bedrock, lines 90-119: resize_image, then invoke_model.  resize_image
\* opens an image above the limit, which raises on bytes that are no image,
\* and its downscale loop raises once a side has no pixel left.
processor_call_bedrock ==
    /\ proc.pc = "call_bedrock"
    /\ LET called == [proc EXCEPT !.calls = Append(@, ProcCall("invoke_model", proc.key))]
       IN \/ /\ proc.image.oversize
             /\ \E e \in IF proc.image.decodable THEN {"ValueError"}
                         ELSE {"UnidentifiedImageError"} :
                  proc' = [proc EXCEPT !.pc = "failed", !.err = e]
             /\ sfn' = TaskFailed
          \/ /\ ~proc.image.oversize \/ proc.image.decodable
             /\ \/ /\ proc' = [called EXCEPT !.pc = "failed", !.err = "ClientError"]
                   /\ sfn' = TaskFailed
                \/ /\ proc' = [called EXCEPT !.pc = "save_text_to_s3"]
                   /\ sfn' = sfn
    /\ UNCHANGED <<seg, fn, sub, objects, table, ev, adj, pil, now>>

\* process_sam3_analysis lines 134-150: the base name is made of the before
\* image's name and the time, and save_text_to_s3 (lines 54-57) puts the
\* analysis under llm_output/.
processor_save_text_to_s3 ==
    /\ proc.pc = "save_text_to_s3"
    /\ LET base_name == BaseName(sam3_output(proc.key).before, proc.key, now)
           key == LlmOutputKey(base_name)
           called == [proc EXCEPT !.calls = Append(@, ProcCall("put_object", key)),
                                  !.base_name = base_name]
       IN \/ /\ proc' = [called EXCEPT !.pc = "failed", !.err = "ClientError"]
             /\ sfn' = TaskFailed
             /\ UNCHANGED <<objects, ev>>
          \/ /\ ev.rules = {}
             /\ proc' = [called EXCEPT !.pc = "generate_markdown_report"]
             /\ objects' = objects \cup {key}
             /\ ev' = [key |-> key, source |-> "s3", rules |-> Rules]
             /\ sfn' = sfn
    /\ UNCHANGED <<seg, fn, sub, table, adj, pil, now>>

\* generate_markdown_report, line 163: the analysis is read back.
processor_generate_markdown_report ==
    /\ proc.pc = "generate_markdown_report"
    /\ LET key == LlmOutputKey(proc.base_name)
           called == [proc EXCEPT !.calls = Append(@, ProcCall("get_object", key))]
       IN \/ /\ proc' = [called EXCEPT !.pc = "failed", !.err = "ClientError"]
             /\ sfn' = TaskFailed
          \/ /\ key \in objects
             /\ proc' = [called EXCEPT !.pc = "save_markdown_to_s3"]
             /\ sfn' = sfn
    /\ UNCHANGED <<seg, fn, sub, objects, table, ev, adj, pil, now>>

\* the images save_markdown_to_s3 embeds, in the order of image_uris
ImageUris(out) == <<out.before, out.after, out.compare>>

\* save_markdown_to_s3, lines 241-279: the three images are read and opened,
\* the report is put under markdown/, and the handler returns (lines 307-315).
processor_save_markdown_to_s3 ==
    /\ proc.pc = "save_markdown_to_s3"
    /\ LET uris == ImageUris(sam3_output(proc.key))
           reads(n) == [j \in 1..n |-> ProcCall("get_object", _parse_s3_uri(uris[j]).key)]
           key == MarkdownKey(proc.base_name)
       IN \/ /\ \E n \in 1..3 :
                  /\ \A j \in 1..(n - 1) : _parse_s3_uri(uris[j]).key \in objects
                  /\ proc' = [proc EXCEPT !.calls = @ \o reads(n), !.pc = "failed",
                                          !.err = "ClientError"]
             /\ sfn' = TaskFailed
             /\ UNCHANGED <<objects, ev>>
          \/ /\ \A j \in 1..3 : _parse_s3_uri(uris[j]).key \in objects
             /\ proc' = [proc EXCEPT !.calls = (@ \o reads(3)) \o <<ProcCall("put_object", key)>>,
                                     !.pc = "failed", !.err = "ClientError"]
             /\ sfn' = TaskFailed
             /\ UNCHANGED <<objects, ev>>
          \/ /\ \A j \in 1..3 : _parse_s3_uri(uris[j]).key \in objects
             /\ ev.rules = {}
             /\ proc' = [proc EXCEPT !.calls = (@ \o reads(3)) \o <<ProcCall("put_object", key)>>,
                                     !.pc = "returned"]
             /\ objects' = objects \cup {key}
             /\ ev' = [key |-> key, source |-> "s3", rules |-> Rules]
             /\ sfn' = IF sfn.state = "ProcessImageWait"
                       THEN [sfn EXCEPT !.state = "Succeeded"] ELSE sfn
    /\ UNCHANGED <<seg, fn, sub, table, adj, pil, now>>

----------------------------------------------------------------------------
(* The adjuster Lambda: the pixel box of a normalised box *)

IMin(a, b) == IF b < a THEN b ELSE a
IMax(a, b) == IF b > a THEN b ELSE a

\* int(x * n) for a float x in [0, 1] (v units of 1/Fine) and a whole n: the
\* product is rounded to a double before int() truncates it, so a product
\* that is whole in exact arithmetic may be read as the whole number below
\* (0.29 * 100 is 28.999999999999996); any other product is further from a
\* whole number than the rounding can move it.
IntTimes(v, n) ==
    LET q == (v * n) \div Fine
    IN IF (v * n) % Fine = 0 /\ q > 0 THEN {q, q - 1} ELSE {q}

\* lines 266-270: the four sides brought into the image
PixelBox(left0, top0, right0, bottom0, width, height) ==
    LET left == IMax(0, IMin(width - 1, left0))
        top == IMax(0, IMin(height - 1, top0))
        right == IMax(left + 1, IMin(width, right0))
        bottom == IMax(top + 1, IMin(height, bottom0))
    IN [left |-> left, top |-> top, right |-> right, bottom |-> bottom]

\* a plausible slip: right and bottom only kept inside the image
_bbox_to_pixel_box_NoFloor(bbox, width, height) ==
    { [left |-> IMax(0, IMin(width - 1, l)), top |-> IMax(0, IMin(height - 1, t)),
       right |-> IMin(width, r), bottom |-> IMin(height, b)] :
        l \in IntTimes(bbox.x_min, width), t \in IntTimes(bbox.y_min, height),
        r \in IntTimes(bbox.x_max, width), b \in IntTimes(bbox.y_max, height) }

\* _bbox_to_pixel_box, lines 260-270: the boxes the call may return (one per
\* reading of the four products)
_bbox_to_pixel_box(bbox, width, height) ==
    { PixelBox(l, t, r, b, width, height) :
        l \in IntTimes(bbox.x_min, width), t \in IntTimes(bbox.y_min, height),
        r \in IntTimes(bbox.x_max, width), b \in IntTimes(bbox.y_max, height) }

\* the sides of the images and the boxes the helper is called with: every box
\* _normalize_bbox returns for the raw boxes of PixelRaws
Sides == (1..MaxSide) \cup {10, 100}
PixelCoords ==
    { JInt(0), JInt(1), Frac(-1, 2), Frac(1, 10), Frac(29, 100), Frac(1, 2),
      JFloat(Fin(1234561)), JFloat(Fin(1234564)), JFloat(Fin(9999996)),
      Frac(3, 2), JFloat(NaN) }
PixelRaws ==
    { SetField(SetField(BaseBox, "x_min", a), "x_max", b) : a, b \in PixelCoords }
    \cup { SetField(SetField(BaseBox, "y_min", a), "y_max", b) : a, b \in PixelCoords }
NormalizedBoxes == { _normalize_bbox(b) : b \in PixelRaws } \ {NoBox}

\* a call of the helper and its return
PixelCall(bbox, width, height) ==
    [op |-> "_bbox_to_pixel_box", pc |-> "called", bbox |-> bbox,
     width |-> width, height |-> height, box |-> PixelBox(0, 0, 0, 0, 1, 1)]

bbox_to_pixel_box ==
    /\ fn.op = "_bbox_to_pixel_box" /\ fn.pc = "called"
    /\ \E box \in _bbox_to_pixel_box(fn.bbox, fn.width, fn.height) :
         fn' = [fn EXCEPT !.pc = "returned", !.box = box]
    /\ UNCHANGED <<seg, sub, objects, table, ev, sfn, proc, adj, pil, now>>

InitPixel ==
    /\ objects = {} /\ table = {} /\ pil = TRUE /\ now = 0
    /\ sub = [e \in Submissions |-> SubIdle] /\ seg = [e \in Submissions |-> SegIdle]
    /\ ev = NoEvent /\ sfn = SfnIdle /\ proc = ProcIdle
    /\ adj = [i \in Invs |-> AdjIdle]
    /\ \E bbox \in NormalizedBoxes, width \in Sides, height \in Sides :
         fn = PixelCall(bbox, width, height)

NextPixel == bbox_to_pixel_box

SpecPixel == InitPixel /\ [][NextPixel]_vars

----------------------------------------------------------------------------
(* The size-fitting transform: resize_image of the processor Lambda,
   _resize_image of the adjuster Lambda (the same code), resize_image of the
   stand-alone lambda_function *)

ResizeVariants == {"processor", "adjuster", "legacy"}

\* max_size_bytes = 3_900_000; max_size_mb = 5, max_bytes = max_size_mb * 1024 * 1024
MaxSizeBytes == 3900000
MaxSizeMb == 5
Ceiling(variant) == IF variant = "legacy" THEN MaxSizeMb * 1024 * 1024 ELSE MaxSizeBytes

\* the qualities of the first pass, in order; the qualities the loop of the
\* stand-alone variant saves JPEG at (85 lowered by 10 while above 10)
Qualities == <<85, 70, 50, 30>>
LegacyQualities == <<75, 65, 55, 45, 35, 25, 15, 5>>

\* how long the bytes given, and the bytes of an encoding, may be
InputLens(variant) == {Ceiling(variant) - 1, Ceiling(variant), Ceiling(variant) + 1}
EncodedLens(variant) == {Ceiling(variant), Ceiling(variant) + 1}

\* a plausible slip: the size kept as it is
Scaled_Same(side) == side

\* a plausible slip: the scaled side rounded up
Scaled_Ceil(side) == (side * 8 + 9) \div 10

\* int(side * 0.8): the double 0.8 lies above 0.8, so the product of a whole
\* side is never read below a whole number it reaches
Scaled(side) == (side * 8) \div 10

\* A call: the bytes given (their length, whether PIL can open them as an RGB
\* image, the size of the image), the position, the size and the quality the
\* loops are at, the number of resize calls made, and the outcome (the length
\* of the bytes returned, whether they are the bytes given, the error raised).
ResizeCall(variant, len, decodable, width, height) ==
    [op |-> "resize_image", variant |-> variant, pc |-> "called",
     len |-> len, decodable |-> decodable, size0 |-> <<width, height>>,
     width |-> width, height |-> height, q |-> 1, n |-> 0,
     out |-> 0, same |-> FALSE, err |-> ""]

ResizeReturn(call, out, same) == [call EXCEPT !.pc = "returned", !.out = out, !.same = same]

\* lines 66-69 (111-114 in the adjuster, 34-38 in the stand-alone variant): an
\* input not above the ceiling is returned as it is; any other is opened,
\* which raises on bytes that are no image.
resize_image_open ==
    /\ fn.op = "resize_image" /\ fn.pc = "called"
    /\ fn' = IF fn.len <= Ceiling(fn.variant) THEN ResizeReturn(fn, fn.len, TRUE)
             ELSE IF ~fn.decodable
                  THEN [fn EXCEPT !.pc = "failed", !.err = "UnidentifiedImageError"]
                  ELSE [fn EXCEPT !.pc = IF fn.variant = "legacy" THEN "legacy_loop"
                                         ELSE "quality"]
    /\ UNCHANGED <<seg, sub, objects, table, ev, sfn, proc, adj, pil, now>>

\* lines 72-76 (117-121): JPEG at decreasing quality, the first encoding that
\* fits is returned.
resize_image_quality ==
    /\ fn.op = "resize_image" /\ fn.pc = "quality"
    /\ \E encoded \in EncodedLens(fn.variant) :
         fn' = IF encoded <= Ceiling(fn.variant) THEN ResizeReturn(fn, encoded, FALSE)
               ELSE IF fn.q < Len(Qualities) THEN [fn EXCEPT !.q = @ + 1]
               ELSE [fn EXCEPT !.pc = "downscale"]
    /\ UNCHANGED <<seg, sub, objects, table, ev, sfn, proc, adj, pil, now>>

\* lines 79-85 (124-130): while True, the image is resized to 0.8 of each
\* side and saved as JPEG at quality 70; an encoding that fits is returned.
\* Image.resize raises ValueError for a size with a side below 1.
resize_image_downscale ==
    /\ fn.op = "resize_image" /\ fn.pc = "downscale"
    /\ LET width == Scaled(fn.width)
           height == Scaled(fn.height)
       IN IF width < 1 \/ height < 1
          THEN fn' = [fn EXCEPT !.pc = "failed", !.err = "ValueError"]
          ELSE \E encoded \in EncodedLens(fn.variant) :
                 LET resized == [fn EXCEPT !.width = width, !.height = height, !.n = @ + 1]
                 IN fn' = IF encoded <= Ceiling(fn.variant)
                          THEN ResizeReturn(resized, encoded, FALSE)
                          ELSE resized
    /\ UNCHANGED <<seg, sub, objects, table, ev, sfn, proc, adj, pil, now>>

\* lambda_function lines 40-48: while quality > 10, PNG, then JPEG at the
\* quality lowered by 10; the first encoding that fits is returned.
legacy_resize_image_loop ==
    /\ fn.op = "resize_image" /\ fn.pc = "legacy_loop"
    /\ \E png \in EncodedLens(fn.variant), jpeg \in EncodedLens(fn.variant) :
         fn' = IF png <= Ceiling(fn.variant) THEN ResizeReturn(fn, png, FALSE)
               ELSE IF jpeg <= Ceiling(fn.variant) THEN ResizeReturn(fn, jpeg, FALSE)
               ELSE IF fn.q < Len(LegacyQualities) THEN [fn EXCEPT !.q = @ + 1]
               ELSE [fn EXCEPT !.pc = "legacy_halve"]
    /\ UNCHANGED <<seg, sub, objects, table, ev, sfn, proc, adj, pil, now>>

\* lambda_function lines 50-55: the image is resized to half of each side,
\* saved as JPEG at quality 70, and those bytes are returned.
legacy_resize_image_halve ==
    /\ fn.op = "resize_image" /\ fn.pc = "legacy_halve"
    /\ LET width == fn.width \div 2
           height == fn.height \div 2
       IN IF width < 1 \/ height < 1
          THEN fn' = [fn EXCEPT !.pc = "failed", !.err = "ValueError"]
          ELSE \E encoded \in EncodedLens(fn.variant) :
                 fn' = ResizeReturn([fn EXCEPT !.width = width, !.height = height,
                                               !.n = @ + 1], encoded, FALSE)
    /\ UNCHANGED <<seg, sub, objects, table, ev, sfn, proc, adj, pil, now>>

InitResize ==
    /\ objects = {} /\ table = {} /\ pil = TRUE /\ now = 0
    /\ sub = [e \in Submissions |-> SubIdle] /\ seg = [e \in Submissions |-> SegIdle]
    /\ ev = NoEvent /\ sfn = SfnIdle /\ proc = ProcIdle
    /\ adj = [i \in Invs |-> AdjIdle]
    /\ \E variant \in ResizeVariants, decodable \in BOOLEAN,
          width \in 1..MaxSide, height \in 1..MaxSide :
         \E len \in InputLens(variant) :
            fn = ResizeCall(variant, len, decodable, width, height)

NextResize ==
    \/ resize_image_open
    \/ resize_image_quality
    \/ resize_image_downscale
    \/ legacy_resize_image_loop
    \/ legacy_resize_image_halve

SpecResize == InitResize /\ [][NextResize]_vars

----------------------------------------------------------------------------
(* The overlap of two masks (inference.py) *)

\* a mask is a list of points [x, y]; the value returned is the quotient
\* num / den of two whole numbers (0 is 0 / 1)
Quotient(num, den) == [num |-> num, den |-> den]

SetMin(S) == CHOOSE m \in S : \A x \in S : m <= x
SetMax(S) == CHOOSE m \in S : \A x \in S : x <= m

\* lines 153-159: (min x, min y, max x, max y) of a mask that is not empty
BBox(mask) ==
    LET xs == {mask[j][1] : j \in DOMAIN mask}
        ys == {mask[j][2] : j \in DOMAIN mask}
    IN [x |-> SetMin(xs), y |-> SetMin(ys), x_max |-> SetMax(xs), y_max |-> SetMax(ys)]

\* a plausible slip: the intersection is set against the first box alone
_calculate_overlap_OverFirst(mask1, mask2) ==
    IF mask1 = <<>> \/ mask2 = <<>> THEN Quotient(0, 1)
    ELSE LET bbox1 == BBox(mask1)
             bbox2 == BBox(mask2)
             intersect_x1 == IMax(bbox1.x, bbox2.x)
             intersect_y1 == IMax(bbox1.y, bbox2.y)
             intersect_x2 == IMin(bbox1.x_max, bbox2.x_max)
             intersect_y2 == IMin(bbox1.y_max, bbox2.y_max)
         IN IF intersect_x1 >= intersect_x2 \/ intersect_y1 >= intersect_y2
            THEN Quotient(0, 1)
            ELSE Quotient((intersect_x2 - intersect_x1) * (intersect_y2 - intersect_y1),
                          (bbox1.x_max - bbox1.x) * (bbox1.y_max - bbox1.y))

\* _calculate_overlap, lines 148-182
_calculate_overlap(mask1, mask2) ==
    IF mask1 = <<>> \/ mask2 = <<>> THEN Quotient(0, 1)
    ELSE LET bbox1 == BBox(mask1)
             bbox2 == BBox(mask2)
             intersect_x1 == IMax(bbox1.x, bbox2.x)
             intersect_y1 == IMax(bbox1.y, bbox2.y)
             intersect_x2 == IMin(bbox1.x_max, bbox2.x_max)
             intersect_y2 == IMin(bbox1.y_max, bbox2.y_max)
         IN IF intersect_x1 >= intersect_x2 \/ intersect_y1 >= intersect_y2
            THEN Quotient(0, 1)
            ELSE LET intersect_area == (intersect_x2 - intersect_x1) * (intersect_y2 - intersect_y1)
                     bbox1_area == (bbox1.x_max - bbox1.x) * (bbox1.y_max - bbox1.y)
                     bbox2_area == (bbox2.x_max - bbox2.x) * (bbox2.y_max - bbox2.y)
                     union_area == bbox1_area + bbox2_area - intersect_area
                 IN IF union_area > 0 THEN Quotient(intersect_area, union_area)
                    ELSE Quotient(0, 1)

\* the masks the evaluator is called with: no point, one point, two points of
\* an image of MaxSide by MaxSide pixels
Points == (0..(MaxSide - 1)) \X (0..(MaxSide - 1))
Masks == {<<>>} \cup {<<p>> : p \in Points} \cup {<<p, q>> : p, q \in Points}

OverlapCall(mask1, mask2) ==
    [op |-> "_calculate_overlap", pc |-> "called", mask1 |-> mask1, mask2 |-> mask2,
     result |-> Quotient(0, 1)]

calculate_overlap ==
    /\ fn.op = "_calculate_overlap" /\ fn.pc = "called"
    /\ fn' = [fn EXCEPT !.pc = "returned",
                        !.result = _calculate_overlap(fn.mask1, fn.mask2)]
    /\ UNCHANGED <<seg, sub, objects, table, ev, sfn, proc, adj, pil, now>>

InitOverlap ==
    /\ objects = {} /\ table = {} /\ pil = TRUE /\ now = 0
    /\ sub = [e \in Submissions |-> SubIdle] /\ seg = [e \in Submissions |-> SegIdle]
    /\ ev = NoEvent /\ sfn = SfnIdle /\ proc = ProcIdle
    /\ adj = [i \in Invs |-> AdjIdle]
    /\ \E mask1 \in Masks, mask2 \in Masks : fn = OverlapCall(mask1, mask2)

NextOverlap == calculate_overlap

SpecOverlap == InitOverlap /\ [][NextOverlap]_vars

----------------------------------------------------------------------------
(* The comparison of the masks of both images (inference.py, predict_fn) *)

\* a plausible slip: an overlap of one half counts as well
Survives_AtLeastHalf(overlap) == 2 * overlap.num >= overlap.den

\* line 130: _calculate_overlap(before_mask, after_mask) > 0.5
Survives(overlap) == 2 * overlap.num > overlap.den

\* the masks _process_image may return for an image: no pixel, one pixel, a
\* square, the lower half of the square
CompareMasks ==
    { <<>>, << <<1, 1>> >>, << <<0, 0>>, <<2, 2>> >>, << <<0, 0>>, <<2, 1>> >> }
MaskLists == {<<>>} \cup {<<m>> : m \in CompareMasks} \cup {<<m, n>> : m, n \in CompareMasks}

\* A call of predict_fn from the masks on: the masks of both images, the
\* before mask the loop is at, the outlines drawn on the copy of the before
\* image, the S3 calls made, and the descriptor returned.
CompareCall(before_masks, after_masks, compared_output) ==
    [op |-> "predict_fn", pc |-> "compare", before_masks |-> before_masks,
     after_masks |-> after_masks, compared_output |-> compared_output, j |-> 1,
     outlines |-> <<>>, calls |-> <<>>, err |-> "", returned |-> FALSE]

\* lines 127-135: one pass of the loop over the before masks.  The inner loop
\* stops at the first after mask that overlaps by more than one half;
\* _draw_outline (lines 184-201) draws the bounding rectangle of the mask in
\* the colour, and draws nothing for a mask without points.
compare_masks ==
    /\ fn.op = "predict_fn" /\ fn.pc = "compare"
    /\ fn.j <= Len(fn.before_masks)
    /\ LET before_mask == fn.before_masks[fn.j]
           house_survived ==
              \E a \in DOMAIN fn.after_masks :
                 Survives(_calculate_overlap(before_mask, fn.after_masks[a]))
           color == IF house_survived THEN "green" ELSE "red"
       IN fn' = [fn EXCEPT
                   !.j = @ + 1,
                   !.outlines = IF before_mask = <<>> THEN @
                                ELSE Append(@, [mask |-> fn.j, box |-> BBox(before_mask),
                                                color |-> color])]
    /\ UNCHANGED <<seg, sub, objects, table, ev, sfn, proc, adj, pil, now>>

\* line 139 and lines 91-105: after the loop _save_image_to_s3 puts the image
\* under the compared_output location; the put may raise.
save_image_to_s3 ==
    /\ fn.op = "predict_fn" /\ fn.pc = "compare"
    /\ fn.j > Len(fn.before_masks)
    /\ LET key == _parse_s3_uri(fn.compared_output).key
           called == [fn EXCEPT !.calls = Append(@, [op |-> "put_object", key |-> key])]
       IN \/ /\ fn' = [called EXCEPT !.pc = "failed", !.err = "ClientError"]
             /\ objects' = objects
          \/ /\ fn' = [called EXCEPT !.pc = "saved"]
             /\ objects' = objects \cup {key}
    /\ UNCHANGED <<seg, sub, table, ev, sfn, proc, adj, pil, now>>

\* lines 141-145: the descriptor is returned
return_prediction ==
    /\ fn.op = "predict_fn" /\ fn.pc = "saved"
    /\ fn' = [fn EXCEPT !.pc = "returned", !.returned = TRUE]
    /\ UNCHANGED <<seg, sub, objects, table, ev, sfn, proc, adj, pil, now>>

InitCompare ==
    /\ objects = {} /\ table = {} /\ pil = TRUE /\ now = 0
    /\ sub = [e \in Submissions |-> SubIdle] /\ seg = [e \in Submissions |-> SegIdle]
    /\ ev = NoEvent /\ sfn = SfnIdle /\ proc = ProcIdle
    /\ adj = [i \in Invs |-> AdjIdle]
    /\ \E before_masks \in MaskLists, after_masks \in MaskLists :
         fn = CompareCall(before_masks, after_masks,
                          ComparedRef(<<"a", "_", "b", ".", "p", "n", "g">>))

NextCompare ==
    \/ compare_masks
    \/ save_image_to_s3
    \/ return_prediction

SpecCompare == InitCompare /\ [][NextCompare]_vars

----------------------------------------------------------------------------
(* The endpoint monitor Lambda (endpoint_monitor/index.py) *)

\* timedelta(hours=1) in minutes; the attempts of range(1, 4)
MinAgeMinutes == 60
DeleteAttempts == 3

\* EndpointStatus values of SageMaker; the ages (minutes) an endpoint may have
EndpointStatuses ==
    {"OutOfService", "Creating", "Updating", "SystemUpdating", "RollingBack",
     "InService", "Deleting", "Failed", "UpdateRollbackFailed"}
EndpointAges == {0, MinAgeMinutes - 1, MinAgeMinutes, MinAgeMinutes + 1, 24 * MinAgeMinutes}

\* the endpoint as SageMaker holds it
NoEndpoint == [exists |-> FALSE, status |-> "none", age |-> 0]
Endpoints ==
    {NoEndpoint} \cup [exists : {TRUE}, status : EndpointStatuses, age : EndpointAges]

\* what triggers the monitor: the alarm on zero invocations, the daily rule
MonitorEvents == {"alarm", "schedule"}

\* nothing returned; the values the handler returns
NoAction == [action |-> "null", reason |-> ""]
Action(action, reason) == [action |-> action, reason |-> reason]

\* An invocation: its event, the endpoint, the response of describe_endpoint,
\* the attempt the loop is at, the calls made with their outcomes, the value
\* returned and the exception raised.
MonitorCall(event, endpoint) ==
    [op |-> "endpoint_monitor", pc |-> "describe_endpoint", event |-> event,
     endpoint |-> endpoint, status |-> "none", age |-> 0, attempt |-> 0,
     calls |-> <<>>, result |-> NoAction, err |-> ""]

\* a call of the SageMaker client and how it ended
MonitorCalled(op, outcome) == [op |-> op, outcome |-> outcome]

\* lines 32-41: describe_endpoint.  For an endpoint that does not exist the
\* service answers ValidationException, and the handler returns action none;
\* any other ClientError, and any error that is no ClientError, is raised.
monitor_describe_endpoint ==
    /\ fn.op = "endpoint_monitor" /\ fn.pc = "describe_endpoint"
    /\ \/ /\ ~fn.endpoint.exists
          /\ fn' = [fn EXCEPT !.pc = "returned",
                              !.calls = Append(@, MonitorCalled("describe_endpoint", "ValidationException")),
                              !.result = Action("none", "endpoint_not_found")]
       \/ \E e \in {"ThrottlingException", "EndpointConnectionError"} :
            fn' = [fn EXCEPT !.pc = "failed", !.err = e,
                             !.calls = Append(@, MonitorCalled("describe_endpoint", e))]
       \/ /\ fn.endpoint.exists
          /\ fn' = [fn EXCEPT !.pc = "check_age",
                              !.calls = Append(@, MonitorCalled("describe_endpoint", "ok")),
                              !.status = fn.endpoint.status,
                              !.age = fn.endpoint.age]
    /\ UNCHANGED <<seg, sub, objects, table, ev, sfn, proc, adj, pil, now>>

\* a plausible slip: the age is not looked at
TooNew_Never(age) == FALSE

\* line 46: age < timedelta(hours=1)
TooNew(age) == age < MinAgeMinutes

\* lines 43-54: an endpoint younger than an hour is skipped; one that is not
\* InService is left alone and the handler returns nothing.
monitor_check_age ==
    /\ fn.op = "endpoint_monitor" /\ fn.pc = "check_age"
    /\ fn' = IF TooNew(fn.age)
             THEN [fn EXCEPT !.pc = "returned", !.result = Action("skipped", "too_new")]
             ELSE IF fn.status = "InService"
                  THEN [fn EXCEPT !.pc = "delete_endpoint", !.attempt = 1]
                  ELSE [fn EXCEPT !.pc = "returned"]
    /\ UNCHANGED <<seg, sub, objects, table, ev, sfn, proc, adj, pil, now>>

\* a plausible slip: range(1, 3), which ends the loop after the second attempt
Exhausted_AfterTwo(attempt) == attempt >= DeleteAttempts - 1

\* line 56: attempt is the last value of range(1, 4)
Exhausted(attempt) == attempt >= DeleteAttempts

\* lines 55-68: one attempt of the loop.  An accepted request ends the loop
\* and the handler returns action deleted; a ClientError is logged and, after
\* the last attempt, the else branch of the loop returns action failed; an
\* error that is no ClientError (the connection failed, the read timed out)
\* is not caught.
monitor_delete_endpoint ==
    /\ fn.op = "endpoint_monitor" /\ fn.pc = "delete_endpoint"
    /\ \/ fn' = [fn EXCEPT !.pc = "returned",
                           !.calls = Append(@, MonitorCalled("delete_endpoint", "ok")),
                           !.endpoint = [@ EXCEPT !.status = "Deleting"],
                           !.result = Action("deleted", "")]
       \/ fn' = [fn EXCEPT !.calls = Append(@, MonitorCalled("delete_endpoint", "ClientError")),
                           !.attempt = IF Exhausted(fn.attempt) THEN @ ELSE @ + 1,
                           !.pc = IF Exhausted(fn.attempt) THEN "returned" ELSE @,
                           !.result = IF Exhausted(fn.attempt) THEN Action("failed", "")
                                      ELSE @]
       \/ fn' = [fn EXCEPT !.pc = "failed", !.err = "EndpointConnectionError",
                           !.calls = Append(@, MonitorCalled("delete_endpoint", "EndpointConnectionError"))]
    /\ UNCHANGED <<seg, sub, objects, table, ev, sfn, proc, adj, pil, now>>

InitMonitor ==
    /\ objects = {} /\ table = {} /\ pil = TRUE /\ now = 0
    /\ sub = [e \in Submissions |-> SubIdle] /\ seg = [e \in Submissions |-> SegIdle]
    /\ ev = NoEvent /\ sfn = SfnIdle /\ proc = ProcIdle
    /\ adj = [i \in Invs |-> AdjIdle]
    /\ \E event \in MonitorEvents, endpoint \in Endpoints : fn = MonitorCall(event, endpoint)

NextMonitor ==
    \/ monitor_describe_endpoint
    \/ monitor_check_age
    \/ monitor_delete_endpoint

SpecMonitor == InitMonitor /\ [][NextMonitor]_vars

----------------------------------------------------------------------------
(* Dispatch alone: every key, every way of triggering *)

\* no helper function is being examined on its own
NoCall == [op |-> "none"]

TypeIdle ==
    /\ objects = {} /\ table = {} /\ pil \in BOOLEAN /\ now = 0
    /\ sub = [e \in Submissions |-> SubIdle]
    /\ fn = NoCall /\ seg = [e \in Submissions |-> SegIdle]

InitDispatch ==
    /\ TypeIdle
    /\ \E k \in AllKeys :
         \/ /\ ev = [key |-> k, source |-> "s3", rules |-> Rules]
            /\ sfn = SfnIdle /\ proc = ProcIdle
            /\ adj = [i \in Invs |-> AdjIdle]
         \/ /\ ev = [key |-> k, source |-> "sfn", rules |-> {}]
            /\ sfn = [state |-> "CheckInputFormat", key |-> k, branch |-> "none"]
            /\ proc = ProcIdle
            /\ adj = [i \in Invs |-> AdjIdle]
         \/ /\ ev = [key |-> k, source |-> "processor", rules |-> {}]
            /\ sfn = SfnIdle
            /\ \E variant \in ProcVariants : proc = ProcStart(variant, k)
            /\ adj = [i \in Invs |-> AdjIdle]
         \/ \E kind \in DirectKinds :
            /\ ev = [key |-> k, source |-> kind, rules |-> {}]
            /\ sfn = SfnIdle /\ proc = ProcIdle
            /\ adj = [i \in Invs |-> [AdjIdle EXCEPT !.pc = "lambda_handler",
                                                     !.kind = kind, !.evkey = k]]

NextDispatch ==
    \/ S3ObjectCreatedRule
    \/ ComparedObjectCreatedRule
    \/ CheckInputFormat
    \/ UnmatchedKeyPattern
    \/ ProcessImage
    \/ ProcessImageRetry
    \/ processor_lambda_handler
    \/ legacy_lambda_handler
    \/ processor_load_json_from_s3
    \/ \E i \in DOMAIN adj : adjuster_lambda_handler(i)

SpecDispatch == InitDispatch /\ [][NextDispatch]_vars

----------------------------------------------------------------------------
(* The normaliser alone: every parsed output of WideRaws *)

ComparedA == <<"c", "o", "m", "p", "a", "r", "e", "d", "/", "a", ".", "p", "n", "g">>

InitNorm ==
    /\ TypeIdle
    /\ ev = [key |-> ComparedA, source |-> "direct", rules |-> {}]
    /\ sfn = SfnIdle /\ proc = ProcIdle
    /\ \E r \in WideRaws :
         adj = [i \in Invs |-> [AdjIdle EXCEPT !.pc = "_normalize_decisions",
                                               !.kind = "direct",
                                               !.evkey = ComparedA,
                                               !.key = ComparedA,
                                               !.raw = r]]

NextNorm == \E i \in DOMAIN adj : adjuster_normalize(i)

SpecNorm == InitNorm /\ [][NextNorm]_vars

----------------------------------------------------------------------------
(* The pipeline: triggers on the keys of PipelineKeys, one after the other *)

Init ==
    /\ TypeIdle
    /\ ev = NoEvent /\ sfn = SfnIdle /\ proc = ProcIdle
    /\ adj = [i \in Invs |-> AdjIdle]

Next ==
    \/ \E k \in PipelineKeys : ObjectCreated(k)
    \/ \E k \in PipelineKeys : StartExecution(k)
    \/ \E k \in PipelineKeys : InvokeProcessor(k)
    \/ \E kind \in DirectKinds, k \in PipelineKeys : InvokeAdjuster(kind, k)
    \/ S3ObjectCreatedRule
    \/ ComparedObjectCreatedRule
    \/ CheckInputFormat
    \/ UnmatchedKeyPattern
    \/ ProcessImage
    \/ ProcessImageRetry
    \/ processor_lambda_handler
    \/ legacy_lambda_handler
    \/ processor_load_json_from_s3
    \/ \E i \in DOMAIN adj : adjuster_lambda_handler(i)
    \/ \E i \in DOMAIN adj : adjuster_load_s3_binary(i)
    \/ \E i \in DOMAIN adj : adjuster_invoke_bedrock(i)
    \/ \E i \in DOMAIN adj : adjuster_normalize(i)
    \/ \E i \in DOMAIN adj : adjuster_save_visual_artifacts(i)
    \/ \E i \in DOMAIN adj : adjuster_put_crop(i)
    \/ \E i \in DOMAIN adj : adjuster_put_annotated(i)
    \/ \E i \in DOMAIN adj : adjuster_write_routing_results(i)
    \/ \E i \in DOMAIN adj : adjuster_batch_write_item(i)

Spec == Init /\ [][Next]_vars

----------------------------------------------------------------------------
(* Routing runs on the store: two invocations of the adjuster Lambda, one
   after the other or at the same time (the function has no reserved
   concurrency and the table no condition on its writes) *)

Runs == {1, 2}

RoutingKeys == { <<"c", "o", "m", "p", "a", "r", "e", "d", "/", "l", "o", "t">>,
                 <<"c", "o", "m", "p", "a", "r", "e", "d", "/", "l", "o", "t", "#", "7">> }

\* ComparedObjectCreatedRule invokes the adjuster Lambda for an image under
\* compared/ that is in the bucket; nothing holds a second invocation back
\* while the first one runs.
RoutingInvoke(i, k) ==
    /\ adj[i].pc = "none"
    /\ \A j \in 1..(i - 1) : adj[j].pc # "none"
    /\ k \in objects /\ AdjusterRuleMatches(k)
    /\ adj' = [adj EXCEPT ![i] = [AdjIdle EXCEPT !.pc = "lambda_handler",
                                                 !.kind = "eventbridge",
                                                 !.evkey = k,
                                                 !.before = Snapshot]]
    /\ now' = now + 1
    /\ UNCHANGED <<seg, fn, sub, objects, table, ev, sfn, proc, pil>>

InitRouting ==
    /\ fn = NoCall /\ seg = [e \in Submissions |-> SegIdle]
    /\ objects = RoutingKeys /\ table = {} /\ pil \in BOOLEAN /\ now = 0
    /\ sub = [e \in Submissions |-> SubIdle]
    /\ ev = NoEvent /\ sfn = SfnIdle /\ proc = ProcIdle
    /\ adj = [i \in Runs |-> AdjIdle]

NextRouting ==
    \/ \E i \in DOMAIN adj, k \in RoutingKeys : RoutingInvoke(i, k)
    \/ \E i \in DOMAIN adj : adjuster_lambda_handler(i)
    \/ \E i \in DOMAIN adj : adjuster_load_s3_binary(i)
    \/ \E i \in DOMAIN adj : invoke_bedrock(i, RoutingBodies)
    \/ \E i \in DOMAIN adj : adjuster_normalize(i)
    \/ \E i \in DOMAIN adj : adjuster_save_visual_artifacts(i)
    \/ \E i \in DOMAIN adj : adjuster_put_crop(i)
    \/ \E i \in DOMAIN adj : adjuster_put_annotated(i)
    \/ \E i \in DOMAIN adj : adjuster_write_routing_results(i)
    \/ \E i \in DOMAIN adj : adjuster_batch_write_item(i)

SpecRouting == InitRouting /\ [][NextRouting]_vars

----------------------------------------------------------------------------
(* One routing run on an image with more homes than one request carries *)

InitCrowd ==
    /\ fn = NoCall /\ seg = [e \in Submissions |-> SegIdle]
    /\ objects = {ComparedA} /\ table = {} /\ pil \in BOOLEAN /\ now = 1
    /\ sub = [e \in Submissions |-> SubIdle]
    /\ ev = [key |-> ComparedA, source |-> "s3", rules |-> {}]
    /\ sfn = SfnIdle /\ proc = ProcIdle
    /\ adj = [i \in Invs |-> [AdjIdle EXCEPT !.pc = "lambda_handler",
                                             !.kind = "eventbridge",
                                             !.evkey = ComparedA,
                                             !.before = [objects |-> {ComparedA},
                                                         table |-> {}]]]

NextCrowd ==
    \/ \E i \in DOMAIN adj : adjuster_lambda_handler(i)
    \/ \E i \in DOMAIN adj : adjuster_load_s3_binary(i)
    \/ \E i \in DOMAIN adj : invoke_bedrock(i, CrowdBodies)
    \/ \E i \in DOMAIN adj : adjuster_normalize(i)
    \/ \E i \in DOMAIN adj : adjuster_save_visual_artifacts(i)
    \/ \E i \in DOMAIN adj : adjuster_put_crop(i)
    \/ \E i \in DOMAIN adj : adjuster_put_annotated(i)
    \/ \E i \in DOMAIN adj : adjuster_write_routing_results(i)
    \/ \E i \in DOMAIN adj : adjuster_batch_write_item(i)

SpecCrowd == InitCrowd /\ [][NextCrowd]_vars

----------------------------------------------------------------------------
(* A routing run on an image with two boxed homes, for the keys of the crops *)

\* an identifier longer than the cut of _sanitize_key_component, ending in c
LongId(c) == [j \in 1..MaxKeyComponent |-> "x"] \o <<c>>

\* the identifiers the reasoning service may give a home
CropIds == { <<"h", "1">>, <<"a", "/", "b">>, <<"a", "_", "b">>, <<"a", " ", "b">>,
             LongId("1"), LongId("2") }

\* a boxed home under the identifier id
CropHome(id) ==
    JDict([house_id |-> JStr(id), decision |-> JStr(NEEDS_HUMAN_REVIEW), bbox |-> BaseBox])

\* the responses: two homes with different identifiers
CropBodies ==
    { <<TextItem(<<JsonText(JDict([homes |-> JList(<<CropHome(p[1]), CropHome(p[2])>>)]))>>)>> :
        p \in {q \in CropIds \X CropIds : q[1] # q[2]} }

NextCrops ==
    \/ \E i \in DOMAIN adj : adjuster_lambda_handler(i)
    \/ \E i \in DOMAIN adj : adjuster_load_s3_binary(i)
    \/ \E i \in DOMAIN adj : invoke_bedrock(i, CropBodies)
    \/ \E i \in DOMAIN adj : adjuster_normalize(i)
    \/ \E i \in DOMAIN adj : adjuster_save_visual_artifacts(i)
    \/ \E i \in DOMAIN adj : adjuster_put_crop(i)
    \/ \E i \in DOMAIN adj : adjuster_put_annotated(i)
    \/ \E i \in DOMAIN adj : adjuster_write_routing_results(i)
    \/ \E i \in DOMAIN adj : adjuster_batch_write_item(i)

SpecCrops == InitCrowd /\ [][NextCrops]_vars

----------------------------------------------------------------------------
(* Submissions: two executions of the chain, one after the other or at the
   same time *)

InitSubmit ==
    /\ fn = NoCall /\ seg = [e \in Submissions |-> SegIdle]
    /\ objects = SubmitKeys /\ table = {} /\ pil \in BOOLEAN /\ now = 0
    /\ ev = NoEvent /\ sfn = SfnIdle /\ proc = ProcIdle
    /\ adj = [i \in Invs |-> AdjIdle]
    /\ sub = [e \in Submissions |-> SubIdle]

NextSubmit ==
    \/ \E e \in DOMAIN sub, k \in SubmitKeys : StartSubmission(e, k)
    \/ \E e \in DOMAIN sub : ReadInputJSON(e)
    \/ \E e \in DOMAIN sub : ParseInputJSON(e)
    \/ \E e \in DOMAIN sub : CreatePayload(e)
    \/ \E e \in DOMAIN sub : CallSAM3(e)

SpecSubmit == InitSubmit /\ [][NextSubmit]_vars

----------------------------------------------------------------------------
(* One analysis from its descriptor on: submission, segmentation, and the
   stages the objects written on the way set off *)

Case1Key == <<"i", "n", "p", "u", "t", "s", "/", "c", "a", "s", "e", "1", ".", "j", "s", "o", "n">>
ImageKeys == { <<"i", "m", "a", "g", "e", "s", "/", "a", ".", "p", "n", "g">>, <<"i", "m", "a", "g", "e", "s", "/", "b", ".", "p", "n", "g">> }

\* what the reasoning service may answer to the routing run of the analysis
AnalysisBodies ==
    { <<TextItem(<<FenceJson, Space, JsonText(Scenario2Raw), Space, Fence>>)>>,
      <<TextItem(<<Word>>)>> }

InitAnalysis ==
    /\ table = {} /\ pil \in BOOLEAN /\ now = 0
    /\ \E images \in {ImageKeys, {<<"i", "m", "a", "g", "e", "s", "/", "a", ".", "p", "n", "g">>}} : objects = {Case1Key} \cup images
    /\ fn = NoCall /\ seg = [e \in Submissions |-> SegIdle]
    /\ ev = NoEvent /\ sfn = SfnIdle /\ proc = ProcIdle
    /\ adj = [i \in Invs |-> AdjIdle]
    /\ sub = [e \in Submissions |-> SubIdle]

NextAnalysis ==
    \/ StartSubmission(1, Case1Key)
    \/ \E e \in DOMAIN sub : ReadInputJSON(e)
    \/ \E e \in DOMAIN sub : ParseInputJSON(e)
    \/ \E e \in DOMAIN sub : CreatePayload(e)
    \/ \E e \in DOMAIN sub : CallSAM3(e)
    \/ \E e \in DOMAIN seg : input_fn(e)
    \/ \E e \in DOMAIN seg : predict_fn(e)
    \/ \E e \in DOMAIN seg : async_output(e)
    \/ S3ObjectCreatedRule
    \/ ComparedObjectCreatedRule
    \/ CheckInputFormat
    \/ ProcessImage
    \/ ProcessImageRetry
    \/ processor_lambda_handler
    \/ processor_load_json_from_s3
    \/ processor_load_s3_binary
    \/ processor_call_bedrock
    \/ processor_save_text_to_s3
    \/ processor_generate_markdown_report
    \/ processor_save_markdown_to_s3
    \/ \E i \in DOMAIN adj : adjuster_lambda_handler(i)
    \/ \E i \in DOMAIN adj : adjuster_load_s3_binary(i)
    \/ \E i \in DOMAIN adj : invoke_bedrock(i, AnalysisBodies)
    \/ \E i \in DOMAIN adj : adjuster_normalize(i)
    \/ \E i \in DOMAIN adj : adjuster_save_visual_artifacts(i)
    \/ \E i \in DOMAIN adj : adjuster_put_crop(i)
    \/ \E i \in DOMAIN adj : adjuster_put_annotated(i)
    \/ \E i \in DOMAIN adj : adjuster_write_routing_results(i)
    \/ \E i \in DOMAIN adj : adjuster_batch_write_item(i)

SpecAnalysis == InitAnalysis /\ [][NextAnalysis]_vars

----------------------------------------------------------------------------
(* The reports of two analyses whose segmentation has completed *)

\* the names a descriptor may give its before image
BeforeNames == { <<"a", ".", "p", "n", "g">>, <<"c", ".", "p", "n", "g">> }

\* the request of submission e for the before image name, as ParseInputJSON
\* builds it, and the request completed by the endpoint under inference id e
ReportInput(e, name) ==
    [bucket |-> <<"b">>, before_image |-> ImageRef(name),
     after_image |-> ImageRef(<<"b", ".", "p", "n", "g">>),
     compared_output |-> ComparedRef(<<"a", "_", "b", ".", "p", "n", "g">>),
     text |-> QueryText, payloadKey |-> PayloadKey(<<"u", NatStr(e)[1]>>)]
CompletedRequest(e, name) ==
    [SegIdle EXCEPT !.pc = "completed", !.id = <<"i", NatStr(e)[1]>>,
                    !.input = ReportInput(e, name),
                    !.calls = <<[op |-> "get_object", key |-> _parse_s3_uri(ImageRef(name)).key],
                                [op |-> "get_object", key |-> _parse_s3_uri(ImageRef(<<"b", ".", "p", "n", "g">>)).key],
                                [op |-> "put_object", key |-> _parse_s3_uri(ComparedRef(<<"a", "_", "b", ".", "p", "n", "g">>)).key]>>]

\* The Object Created event of the completion artifact of request e has
\* started an execution of the state machine; the executions before it have
\* ended.
CompletionEvent(e) ==
    /\ seg[e].pc = "completed"
    /\ ev.rules = {}
    /\ sfn.state \in {"none", "Succeeded", "Failed"}
    /\ ev' = [key |-> OutputKey(seg[e].id), source |-> "s3", rules |-> {}]
    /\ sfn' = [state |-> "CheckInputFormat", key |-> OutputKey(seg[e].id), branch |-> "none"]
    /\ proc' = ProcIdle
    /\ UNCHANGED <<seg, fn, sub, objects, table, adj, pil, now>>

\* a second passes on the clock datetime.now reads
Tick ==
    /\ now < MaxEvents
    /\ now' = now + 1
    /\ UNCHANGED <<seg, fn, sub, objects, table, ev, sfn, proc, adj, pil>>

\* Both requests have completed: the images, the payloads, the comparison
\* image and the completion artifacts are in the bucket; the records of the
\* submissions are dropped.
InitReport ==
    /\ table = {} /\ pil = TRUE /\ now = 0 /\ fn = NoCall
    /\ sub = [e \in Submissions |-> SubIdle]
    /\ \E names \in {n \in [Submissions -> BeforeNames] : n[1] = <<"a", ".", "p", "n", "g">>} :
         /\ seg = [e \in Submissions |-> CompletedRequest(e, names[e])]
         /\ objects = UNION {{_parse_s3_uri(ImageRef(names[e])).key,
                              PayloadKey(<<"u", NatStr(e)[1]>>),
                              OutputKey(<<"i", NatStr(e)[1]>>)} : e \in Submissions}
                      \cup {_parse_s3_uri(ImageRef(<<"b", ".", "p", "n", "g">>)).key,
                            _parse_s3_uri(ComparedRef(<<"a", "_", "b", ".", "p", "n", "g">>)).key}
    /\ ev = NoEvent /\ sfn = SfnIdle /\ proc = ProcIdle
    /\ adj = [i \in Invs |-> AdjIdle]

NextReport ==
    \/ \E e \in DOMAIN seg : CompletionEvent(e)
    \/ Tick
    \/ S3ObjectCreatedRule
    \/ ComparedObjectCreatedRule
    \/ CheckInputFormat
    \/ ProcessImage
    \/ ProcessImageRetry
    \/ processor_lambda_handler
    \/ processor_load_json_from_s3
    \/ processor_load_s3_binary
    \/ processor_call_bedrock
    \/ processor_save_text_to_s3
    \/ processor_generate_markdown_report
    \/ processor_save_markdown_to_s3

SpecReport == InitReport /\ [][NextReport]_vars

----------------------------------------------------------------------------
(* Claims about the dispatch *)

\* the object key the trigger is about: an S3 notification carries it URL-encoded
ObjectKey == IF ev.source = "records" THEN unquote_plus(ev.key) ELSE ev.key

\* the stages an adjuster invocation is in once its key passed the prefix check
RoutingEntered(i) == adj[i].pc \notin {"none", "lambda_handler", "bad_event", "skipped"}

\* the processor is past its key check
ReportEntered == proc.pc \notin {"none", "lambda_handler", "rejected"}

\* every rule, the router and the handlers' key checks have decided
Dispatched ==
    /\ ev.source # "none" /\ ev.rules = {}
    /\ sfn.state \notin {"CheckInputFormat", "ProcessImage"}
    /\ proc.pc # "lambda_handler"
    /\ \A i \in DOMAIN adj : adj[i].pc # "lambda_handler"

\* the branches the trigger has been dispatched to so far
Branches ==
    {c \in {"submission", "report", "routing"} :
        \/ c = sfn.branch
        \/ c = "report" /\ ReportEntered
        \/ c = "routing" /\ \E i \in DOMAIN adj : RoutingEntered(i)}

\* the class the key's prefix and suffix call for
KeyClasses(k) ==
    {c \in {"submission", "report", "routing"} :
        \/ c = "submission" /\ startswith(k, <<"i", "n", "p", "u", "t", "s", "/">>)
                            /\ endswith(k, <<".", "j", "s", "o", "n">>)
        \/ c = "report" /\ startswith(k, <<"a", "s", "y", "n", "c", "-", "o", "u", "t", "/">>)
                        /\ endswith(k, <<".", "o", "u", "t">>)
        \/ c = "routing" /\ startswith(k, <<"c", "o", "m", "p", "a", "r", "e", "d", "/">>)}

\* C1: the dispatch puts a key in exactly one of submission, report, routing,
\* unmatched, and the class is the one its prefix and suffix call for: inputs/
\* with .json is submission, async-out/ with .out is report, compared/ is routing,
\* anything else is unmatched (no branch is entered).  No key enters two
\* branches, no component enters a branch the key does not call for, the router
\* and the processor agree, and a storage event ends in exactly its class.
Thm_C1_DispatchClass ==
    LET want == KeyClasses(ObjectKey) IN
    /\ Cardinality(want) <= 1
    /\ Branches \subseteq want
    /\ (sfn.branch = "report" => proc.pc # "rejected")
    /\ (Dispatched /\ ev.source = "s3" => Branches = want)
    /\ (Dispatched /\ ev.source = "sfn" =>
          /\ sfn.branch \in {"submission", "report", "unmatched"}
          /\ (sfn.branch = "unmatched" <=> want \cap {"submission", "report"} = {}))
    /\ (Dispatched /\ ev.source = "processor" =>
          (ReportEntered <=> "report" \in want))
    /\ (Dispatched /\ ev.source \in {"direct", "records"} =>
          /\ adj[1].pc # "bad_event"
          /\ (RoutingEntered(1) <=> "routing" \in want)
          /\ (adj[1].pc = "skipped" <=> "routing" \notin want))

\* a storage event for a key under compared/ that also ends in .json has been
\* dispatched, to the routing branch alone
Wit_C1_DispatchClass ==
    /\ Dispatched /\ ev.source = "s3"
    /\ endswith(ev.key, <<".", "j", "s", "o", "n">>)
    /\ Branches = {"routing"}

----------------------------------------------------------------------------
(* Claims about the normaliser *)

\* invocation i has normalised its raw output
NormDone(i) == adj[i].normalized.ok

\* the raw entries and the normalised records of invocation i
RawItems(i) == ItemsOf(HomesOf(adj[i].raw))
NormHomes(i) == adj[i].normalized.homes

\* the raw value of a field of a raw entry, Absent when the key is missing
RawField(home, key) == get(home, key, Absent)

TwoDecisions == {AUTO_APPROVED, NEEDS_HUMAN_REVIEW}

\* C2: whatever the raw decision is (a string, another value, or missing), the
\* normalised record's decision is auto_approved or needs_human_review, and a
\* raw decision that is missing or not a string is needs_human_review.
Thm_C2_DecisionEnum ==
    \A i \in DOMAIN adj : NormDone(i) =>
        /\ Len(NormHomes(i)) = Len(RawItems(i))
        /\ \A j \in 1..Len(NormHomes(i)) :
             /\ NormHomes(i)[j].decision \in TwoDecisions
             /\ (RawField(RawItems(i)[j], "decision").t # "str"
                   => NormHomes(i)[j].decision = NEEDS_HUMAN_REVIEW)

\* a record normalised from a raw decision that is not a string
Wit_C2_DecisionEnum ==
    \E i \in DOMAIN adj : NormDone(i) /\ Len(NormHomes(i)) = 1
        /\ RawField(RawItems(i)[1], "decision").t = "int"
        /\ NormHomes(i)[1].decision = NEEDS_HUMAN_REVIEW

\* C3 as stated: every raw decision other than the exact strings auto_approved
\* and needs_human_review, case variants included, becomes needs_human_review.
CE_C3_OnlyExactStrings ==
    \A i \in DOMAIN adj : NormDone(i) =>
        \A j \in 1..Len(NormHomes(i)) :
            RawField(RawItems(i)[j], "decision")
                    \notin {JStr(AUTO_APPROVED), JStr(NEEDS_HUMAN_REVIEW)}
                => NormHomes(i)[j].decision = NEEDS_HUMAN_REVIEW

\* what a raw decision reads as: a string without its surrounding whitespace,
\* in lower case; anything else reads as nothing
ReadsAs(raw) == IF raw.t = "str" THEN lower(strip(raw.s)) ELSE <<>>

\* C3 amended: a raw decision is normalised by what it reads as once surrounding
\* whitespace is dropped and it is lower-cased: auto_approved (AUTO_APPROVED
\* too) stays auto_approved, needs_human_review stays needs_human_review, and
\* everything else (other words, the empty string, a missing field, a value
\* that is not a string) becomes needs_human_review.
Thm_C3_CaseInsensitive ==
    \A i \in DOMAIN adj : NormDone(i) =>
        \A j \in 1..Len(NormHomes(i)) :
            LET r == ReadsAs(RawField(RawItems(i)[j], "decision")) IN
            NormHomes(i)[j].decision =
                (IF r = AUTO_APPROVED THEN AUTO_APPROVED ELSE NEEDS_HUMAN_REVIEW)

\* an upper-case AUTO_APPROVED has been normalised to auto_approved
Wit_C3_CaseInsensitive ==
    \E i \in DOMAIN adj : NormDone(i) /\ Len(NormHomes(i)) = 1
        /\ RawField(RawItems(i)[1], "decision")
             = JStr(<<"A", "U", "T", "O", "_", "A", "P", "P", "R", "O", "V", "E", "D">>)
        /\ NormHomes(i)[1].decision = AUTO_APPROVED

\* C4: the decision is lower-cased before it is matched, and the output
\* {"homes": [{h1, AUTO_APPROVED, "0.9", box 0.1/0.1/0.5/0.5}]} normalises to
\* exactly one record: h1, auto_approved, confidence 0.9, the box present.
Thm_C4_Scenario2 ==
    \A i \in DOMAIN adj : NormDone(i) =>
        /\ \A j \in 1..Len(NormHomes(i)) :
             LET d == RawField(RawItems(i)[j], "decision") IN
             (d.t = "str" /\ lower(d.s) \in TwoDecisions)
                 => NormHomes(i)[j].decision = lower(d.s)
        /\ (adj[i].raw = Scenario2Raw =>
              /\ Len(NormHomes(i)) = 1
              /\ adj[i].normalized.summary.total_homes = 1
              /\ NormHomes(i)[1].house_id = <<"h", "1">>
              /\ NormHomes(i)[1].decision = AUTO_APPROVED
              /\ NormHomes(i)[1].confidence = Fin(9 * (Fine \div 10))
              /\ NormHomes(i)[1].bbox =
                    [present |-> TRUE,
                     x_min |-> Fine \div 10, y_min |-> Fine \div 10,
                     x_max |-> Fine \div 2, y_max |-> Fine \div 2])

\* the output of scenario 2 has been normalised
Wit_C4_Scenario2 ==
    \E i \in DOMAIN adj : NormDone(i) /\ adj[i].raw = Scenario2Raw
        /\ adj[i].pc = "_save_visual_artifacts"

\* C5 as stated: every box the normaliser emits satisfies, on the stored
\* (clamped and rounded) values, 0 <= x_min < x_max <= 1 and
\* 0 <= y_min < y_max <= 1.
CE_C5_StoredBoxStrict ==
    \A i \in DOMAIN adj : NormDone(i) =>
        \A j \in 1..Len(NormHomes(i)) :
            LET b == NormHomes(i)[j].bbox IN
            b.present =>
                /\ 0 <= b.x_min /\ b.x_min < b.x_max /\ b.x_max <= Fine
                /\ 0 <= b.y_min /\ b.y_min < b.y_max /\ b.y_max <= Fine

\* the four coordinates of a raw box as floats, when it is a dict and all four
\* convert to a float that is not nan
NumericBox(raw_bbox) ==
    /\ raw_bbox.t = "dict"
    /\ \A key \in BoxKeys :
         /\ key \in DOMAIN raw_bbox.d
         /\ float(raw_bbox.d[key]).ok
         /\ float(raw_bbox.d[key]).f.k # "nan"
Coord(raw_bbox, key) == float(raw_bbox.d[key]).f

\* a float is a number of [0, 1]
InUnit(f) == f.k = "fin" /\ 0 <= f.v /\ f.v <= Fine

\* the raw box satisfies 0 <= min < max <= 1 on both axes
RawBoxValid(b) ==
    /\ \A key \in BoxKeys : InUnit(Coord(b, key))
    /\ Coord(b, "x_min").v < Coord(b, "x_max").v
    /\ Coord(b, "y_min").v < Coord(b, "y_max").v

\* C6 as stated: a raw box that violates 0 <= x_min < x_max <= 1 or
\* 0 <= y_min < y_max <= 1 is dropped, never repaired by clamping.
CE_C6_OutOfRangeDropped ==
    \A i \in DOMAIN adj : NormDone(i) =>
        \A j \in 1..Len(NormHomes(i)) :
            LET b == RawField(RawItems(i)[j], "bbox") IN
            (NumericBox(b) /\ ~RawBoxValid(b)) => ~NormHomes(i)[j].bbox.present

\* a coordinate brought into [0, 1]
IntoUnit(f) ==
    CASE f.k = "inf" -> Fine
      [] f.k = "ninf" -> 0
      [] f.v < 0 -> 0
      [] f.v > Fine -> Fine
      [] OTHER -> f.v

\* C6 amended: a raw box with four numeric coordinates is dropped exactly when
\* its extent is degenerate or inverted once each coordinate is brought into
\* [0, 1] (x_max <= x_min or y_max <= y_min); a coordinate outside [0, 1] does
\* not by itself drop the box: it is clamped to the nearest bound, and the box
\* is kept with the clamped coordinates, rounded to 6 decimals.
Thm_C6_ClampThenDrop ==
    \A i \in DOMAIN adj : NormDone(i) =>
        \A j \in 1..Len(NormHomes(i)) :
            LET b == RawField(RawItems(i)[j], "bbox")
                n == NormHomes(i)[j].bbox
            IN NumericBox(b) =>
                LET x0 == IntoUnit(Coord(b, "x_min"))
                    x1 == IntoUnit(Coord(b, "x_max"))
                    y0 == IntoUnit(Coord(b, "y_min"))
                    y1 == IntoUnit(Coord(b, "y_max"))
                IN IF x1 <= x0 \/ y1 <= y0
                   THEN ~n.present
                   ELSE /\ n.present
                        /\ n.x_min = round(x0) /\ n.x_max = round(x1)
                        /\ n.y_min = round(y0) /\ n.y_max = round(y1)

\* a box with x_min = -0.5 has been kept, with x_min = 0
Wit_C6_ClampThenDrop ==
    \E i \in DOMAIN adj : NormDone(i) /\ Len(NormHomes(i)) = 1
        /\ LET b == RawField(RawItems(i)[1], "bbox") IN
           /\ NumericBox(b) /\ Coord(b, "x_min") = Fin(-(Fine \div 2))
           /\ NormHomes(i)[1].bbox.present
           /\ NormHomes(i)[1].bbox.x_min = 0

\* a <= b on floats: false whenever one side is nan
FLe(a, b) == FLt(a, b) \/ (a.k # "nan" /\ a = b)

\* C7's invalid box: not an object, a coordinate missing or not numeric, or
\* x_max <= x_min or y_max <= y_min
InvalidBox(b) ==
    \/ b.t # "dict"
    \/ \E key \in BoxKeys : key \notin DOMAIN b.d \/ ~float(b.d[key]).ok
    \/ FLe(float(b.d.x_max).f, float(b.d.x_min).f)
    \/ FLe(float(b.d.y_max).f, float(b.d.y_min).f)

CountOf(homes, d) == Cardinality({j \in 1..Len(homes) : homes[j].decision = d})

\* C8: the summary is computed from the normalised list alone: total_homes is
\* the length of the list, the two counts are the numbers of records of each
\* decision, total_homes is their sum, and a raw output whose own summary is
\* replaced or removed normalises to the same result.
Thm_C8_SummaryFromList ==
    \A i \in DOMAIN adj : NormDone(i) =>
        LET n == adj[i].normalized IN
        /\ n.summary.total_homes = Len(n.homes)
        /\ n.summary.auto_approved_count = CountOf(n.homes, AUTO_APPROVED)
        /\ n.summary.needs_human_review_count = CountOf(n.homes, NEEDS_HUMAN_REVIEW)
        /\ n.summary.total_homes
             = n.summary.auto_approved_count + n.summary.needs_human_review_count
        /\ (adj[i].raw.t = "dict" =>
              /\ _normalize_decisions(SetField(adj[i].raw, "summary", Absent)) = n
              /\ _normalize_decisions(SetField(adj[i].raw, "summary", ClaimedSummary)) = n
              /\ _normalize_decisions(SetField(adj[i].raw, "summary", JNull)) = n)

\* an output that claims 99 homes and lists two has been normalised
Wit_C8_SummaryFromList ==
    \E i \in DOMAIN adj : NormDone(i)
        /\ adj[i].raw.t = "dict" /\ "summary" \in DOMAIN adj[i].raw.d
        /\ adj[i].raw.d.summary = ClaimedSummary
        /\ adj[i].normalized.summary.total_homes = 2
        /\ adj[i].normalized.summary.auto_approved_count = 1

----------------------------------------------------------------------------
(* Claims about the reasoning service's response *)

\* the calls of an invocation that write: to the bucket or to the table
Writes(a) == {c \in 1..Len(a.calls) : a.calls[c].op \in {"put_object", "batch_write_item"}}

\* the bucket and the table are as the invocation found them
Untouched(a) == objects = a.before.objects /\ table = a.before.table

\* the invocation got a response whose text, the fence markers removed, is
\* not the text of one JSON value
Unparseable(a) == a.responded /\ ~json_loads(Cleaned(a.model_text)).ok

\* C9: when the response text, fence markers stripped, does not parse, the
\* routing invocation ends with an error (RuntimeError) and has had no effect:
\* it returns no result, it has put no crop and no annotated object, and the
\* routing table is as it was before the invocation.
Thm_C9_UnparseableIsFatal ==
    \A i \in DOMAIN adj : Unparseable(adj[i]) =>
        /\ adj[i].pc = "failed" /\ adj[i].err = "RuntimeError"
        /\ adj[i].result = NoResult
        /\ Writes(adj[i]) = {}
        /\ Untouched(adj[i])

\* an invocation for an object that exists, with records of an earlier run in
\* the table, has failed on a response that holds JSON after a sentence
Wit_C9_UnparseableIsFatal ==
    \E i \in DOMAIN adj :
        /\ Unparseable(adj[i]) /\ adj[i].pc = "failed"
        /\ adj[i].key \in objects /\ table # {}
        /\ \E j \in 1..Len(adj[i].model_text) : adj[i].model_text[j].t = "json"

\* the invocation got a response that parses and has no top-level homes list:
\* the value is no object, or the object has no key homes
LacksHomes(a) ==
    /\ a.responded /\ json_loads(Cleaned(a.model_text)).ok
    /\ LET v == json_loads(Cleaned(a.model_text)).v IN
       v.t # "dict" \/ "homes" \notin DOMAIN v.d

\* C10 as stated: when the response parses but has no top-level homes list
\* (key missing, or the top-level value no object), the routing invocation
\* fails: it never returns a result, and it writes no artifact and no record.
CE_C10_MissingHomesIsFatal ==
    \A i \in DOMAIN adj : LacksHomes(adj[i]) =>
        /\ adj[i].pc # "done" /\ adj[i].result = NoResult
        /\ Writes(adj[i]) = {}
        /\ Untouched(adj[i])

----------------------------------------------------------------------------
(* Claims about the handlers' key checks *)

\* the key does not begin with compared/
OutsideCompared(key) ==
    \/ Len(key) < 9
    \/ SubSeq(key, 1, 9) # <<"c", "o", "m", "p", "a", "r", "e", "d", "/">>

\* C11: a routing invocation whose (decoded) key is outside compared/ returns
\* the skip marker (skipped true, reason unsupported-prefix, the key) without
\* raising, and has made no call at all: no object read, no reasoning-service
\* call, no artifact put, no table write; bucket and table are as before.
Thm_C11_SkipMakesNoCall ==
    \A i \in DOMAIN adj :
        (adj[i].pc \notin {"none", "lambda_handler", "bad_event"}
            /\ OutsideCompared(adj[i].key)) =>
        /\ adj[i].pc = "skipped" /\ adj[i].err = ""
        /\ adj[i].result.skipped
        /\ adj[i].result.reason = <<"u", "n", "s", "u", "p", "p", "o", "r", "t", "e", "d", "-", "p", "r", "e", "f", "i", "x">>
        /\ adj[i].result.key = adj[i].key
        /\ adj[i].calls = <<>>
        /\ Untouched(adj[i])

\* an invocation for an object that exists outside compared/ has been skipped
Wit_C11_SkipMakesNoCall ==
    \E i \in DOMAIN adj :
        /\ adj[i].pc = "skipped" /\ adj[i].result.skipped
        /\ adj[i].key \in objects /\ OutsideCompared(adj[i].key)

\* the key begins with async-out/ and ends with .out
ReportKey(key) ==
    /\ Len(key) >= 10
    /\ SubSeq(key, 1, 10) = <<"a", "s", "y", "n", "c", "-", "o", "u", "t", "/">>
    /\ SubSeq(key, Len(key) - 3, Len(key)) = <<".", "o", "u", "t">>

\* text s holds the text part
Contains(s, part) ==
    \E j \in 0..(Len(s) - Len(part)) : SubSeq(s, j + 1, j + Len(part)) = part

\* C12: a report handler (either variant) given a key that does not both begin
\* with async-out/ and end with .out raises an error (ValueError) whose message
\* holds the key, and has made no call before it: no object read, no
\* reasoning-service call, no object write.
Thm_C12_ReportRejects ==
    (proc.pc \notin {"none", "lambda_handler"} /\ ~ReportKey(proc.key)) =>
        /\ proc.pc = "rejected" /\ proc.err = "ValueError"
        /\ proc.key # <<>> /\ Contains(proc.msg, proc.key)
        /\ proc.calls = <<>>

\* the stand-alone variant has rejected a key that ends with .out under
\* another prefix
Wit_C12_ReportRejects ==
    /\ proc.pc = "rejected" /\ proc.variant = "legacy"
    /\ proc.key = <<"o", "t", "h", "e", "r", "/", "a", ".", "o", "u", "t">>
    /\ proc.msg # <<>>

\* the execution is past the router with a key that matches neither the
\* submission pattern (inputs/ ... .json) nor the report pattern
\* (async-out/ ... .out)
RoutedUnmatched ==
    /\ sfn.state \notin {"none", "CheckInputFormat"}
    /\ KeyClasses(sfn.key) \cap {"submission", "report"} = {}

\* C13 as stated: the dispatch execution for a key that matches neither pattern
\* ends in a failure, not in a successful no-op.
CE_C13_UnmatchedFails ==
    RoutedUnmatched => sfn.state \notin {"UnmatchedKeyPattern", "Succeeded"}

\* C13 amended: the dispatch execution for a key that matches neither pattern
\* takes the otherwise branch to the Pass state UnmatchedKeyPattern and ends
\* successfully as a no-op: it never fails, enters no branch and invokes no
\* report handler.  Like it, the routing handler does not fail on its
\* unmatched keys: it returns the skip marker.
Thm_C13_UnmatchedIsNoOp ==
    /\ RoutedUnmatched =>
          /\ sfn.state \in {"UnmatchedKeyPattern", "Succeeded"}
          /\ sfn.branch = "unmatched"
          /\ proc = ProcIdle
    /\ \A i \in DOMAIN adj :
          (adj[i].pc \notin {"none", "lambda_handler", "bad_event"}
              /\ OutsideCompared(adj[i].key)) =>
          adj[i].pc = "skipped" /\ adj[i].err = "" /\ adj[i].result.skipped

\* an execution started for other/a.out has ended successfully
Wit_C13_UnmatchedIsNoOp ==
    /\ RoutedUnmatched /\ sfn.state = "Succeeded"
    /\ sfn.key = <<"o", "t", "h", "e", "r", "/", "a", ".", "o", "u", "t">>

----------------------------------------------------------------------------
(* Claims about the routing table *)

\* the primary keys of a table
RoutingIds(t) == {x.routing_id : x \in t}

\* a record with its creation time left out
Timeless(x) == [x EXCEPT !.created_at = 0]

\* the table as run i leaves it when every item it holds is written
WrittenBy(i) ==
    PutItems(adj[i].before.table, RoutingItems(adj[i]), DOMAIN RoutingItems(adj[i]))

\* run j is a second run of run i: it began on the table run i left, on the
\* same key with the object unchanged, and was given the same parsed output
Rerun(i, j) ==
    /\ i # j
    /\ adj[i].pc = "done" /\ adj[i].normalized.homes # <<>>
    /\ adj[j].pc \in {"_normalize_decisions", "_save_visual_artifacts", "crop",
                       "_write_routing_results", "batch_write_item", "done", "failed"}
    /\ adj[j].responded /\ adj[j].raw = adj[i].raw
    /\ adj[j].key = adj[i].key /\ adj[j].image = adj[i].image
    /\ adj[j].before.table = WrittenBy(i)

\* C14: when a run is repeated on the same source key with the same reasoning
\* output (the image unchanged), the table keeps, at every point of the second
\* run and after it, the primary keys the first run left, and every record
\* equals the one the first run left but for created_at.
Thm_C14_RerunIsIdempotent ==
    \A i, j \in DOMAIN adj :
        Rerun(i, j) =>
            /\ RoutingIds(table) = RoutingIds(WrittenBy(i))
            /\ \A x \in table : \E y \in WrittenBy(i) : Timeless(x) = Timeless(y)
            /\ Cardinality(table) = Cardinality(WrittenBy(i))

\* a second run has ended and has put its own, later, records over the first's
Wit_C14_RerunIsIdempotent ==
    \E i, j \in DOMAIN adj :
        /\ Rerun(i, j) /\ adj[j].pc = "done"
        /\ Len(adj[j].normalized.homes) = 2
        /\ adj[j].timestamp > adj[i].timestamp
        /\ \A x \in table : x.created_at = adj[j].timestamp

\* the runs whose homes have been normalised
Normalised(i) ==
    adj[i].pc \in {"_save_visual_artifacts", "crop", "_write_routing_results",
                   "batch_write_item", "done"}

\* C15 as stated: two records whose (source key, identifier) pairs differ
\* have different primary keys, so that a record of one image never takes the
\* place of a record of another.
CE_C15_KeysNeverCollide ==
    \A i, j \in DOMAIN adj :
        (Normalised(i) /\ Normalised(j)) =>
            \A m \in DOMAIN adj[i].normalized.homes, n \in DOMAIN adj[j].normalized.homes :
                LET a == adj[i].normalized.homes[m].house_id
                    b == adj[j].normalized.homes[n].house_id
                IN <<adj[i].key, a>> # <<adj[j].key, b>> =>
                       RoutingItems(adj[i])[m].routing_id # RoutingItems(adj[j])[n].routing_id

\* the record holds what the normalised entry holds (the confidence and the
\* coordinates in the written form the item gives them)
RecordOf(x, home) ==
    /\ x.house_id = home.house_id
    /\ x.decision = home.decision
    /\ x.confidence = FloatStr(home.confidence)
    /\ x.reason = home.reason
    /\ x.bbox = _bbox_to_dynamodb_map(home.bbox)

\* the records in the table that run i wrote
WroteRecords(i) ==
    {x \in table : \E m \in DOMAIN RoutingItems(adj[i]) : x = RoutingItems(adj[i])[m]}

\* C16 as stated: when a routing run has returned its result, the table holds
\* for every entry of the normalised list a record with that entry's
\* identifier, decision, confidence, reason and box, and the number of
\* distinct records the run wrote is the total_homes it returns.
CE_C16_OneRecordPerEntry ==
    \A i \in DOMAIN adj :
        (adj[i].pc = "done" /\ ~adj[i].result.skipped) =>
            /\ \A m \in DOMAIN adj[i].normalized.homes :
                   \E x \in table : RecordOf(x, adj[i].normalized.homes[m])
            /\ Cardinality(WroteRecords(i)) = adj[i].result.summary.total_homes

\* run j began, on the key of run i, on the table run i left behind
Reprocessing(i, j) ==
    /\ i # j
    /\ adj[i].pc = "done" /\ adj[i].normalized.homes # <<>>
    /\ adj[j].pc \notin {"none", "lambda_handler"}
    /\ adj[j].key = adj[i].key
    /\ adj[j].before.table = WrittenBy(i)

\* the identifiers of the homes run i has normalised (none before that)
HouseIds(i) ==
    {adj[i].normalized.homes[m].house_id : m \in DOMAIN adj[i].normalized.homes}

\* C17: while and after an image is processed again, every record the table
\* held for an identifier the new run does not produce is still there as it
\* was; every record of the table is one it held or an item of the new run;
\* and when the new run has returned, its items have replaced the records of
\* their identifiers.
Thm_C17_OtherRecordsKept ==
    \A i, j \in DOMAIN adj :
        Reprocessing(i, j) =>
            /\ \A y \in adj[j].before.table : y.house_id \notin HouseIds(j) => y \in table
            /\ \A x \in table :
                   \/ x \in adj[j].before.table
                   \/ \E m \in DOMAIN RoutingItems(adj[j]) : x = RoutingItems(adj[j])[m]
            /\ adj[j].pc = "done" =>
                   \A m \in DOMAIN RoutingItems(adj[j]) : RoutingItems(adj[j])[m] \in table

\* the first run wrote h1 and h2, the second only h1: the record of h2 is the
\* first run's, the record of h1 the second's
Wit_C17_OtherRecordsKept ==
    \E i, j \in DOMAIN adj :
        /\ Reprocessing(i, j) /\ adj[j].pc = "done"
        /\ Len(adj[i].normalized.homes) = 2 /\ Len(adj[j].normalized.homes) = 1
        /\ adj[j].timestamp > adj[i].timestamp
        /\ \E x, y \in table :
              /\ x.house_id \in HouseIds(j) /\ x.created_at = adj[j].timestamp
              /\ y.house_id \notin HouseIds(j) /\ y.created_at = adj[i].timestamp
              /\ y \in adj[j].before.table

\* the runs i and j, on one key and with different parsed outputs, have both
\* returned
BothReturned(i, j) ==
    /\ i # j
    /\ adj[i].pc = "done" /\ adj[j].pc = "done"
    /\ adj[i].key = adj[j].key /\ adj[i].raw # adj[j].raw

\* x is an item of run i
ItemOf(x, i) == \E m \in DOMAIN RoutingItems(adj[i]) : x = RoutingItems(adj[i])[m]

\* the table run i would leave if it ran alone on the empty table
Alone(i) == PutItems({}, RoutingItems(adj[i]), DOMAIN RoutingItems(adj[i]))

\* the table the runs would leave if i ran and then j did
InSequence(i, j) == PutItems(Alone(i), RoutingItems(adj[j]), DOMAIN RoutingItems(adj[j]))

\* C18: nothing orders two runs on the same key: when both have returned, the
\* table holds one record for every identifier either produced, and each is
\* an item of the one run or of the other, whichever put it last; which run
\* that is can differ from record to record (the witness).
Thm_C18_RunsInterleave ==
    \A i, j \in DOMAIN adj :
        BothReturned(i, j) =>
            /\ \A x \in table : ItemOf(x, i) \/ ItemOf(x, j)
            /\ \A h \in HouseIds(i) \cup HouseIds(j) :
                   Cardinality({x \in table : x.house_id = h}) = 1

\* both runs have returned and the table is neither what one of them alone
\* nor what the two in either order would have left: one record is the first
\* run's, another the second's
Wit_C18_RunsInterleave ==
    \E i, j \in DOMAIN adj :
        /\ BothReturned(i, j)
        /\ HouseIds(i) = HouseIds(j)
        /\ \E x, y \in table : /\ ItemOf(x, i) /\ ~ItemOf(x, j)
                                /\ ItemOf(y, j) /\ ~ItemOf(y, i)
        /\ table \notin {Alone(i), Alone(j), InSequence(i, j), InSequence(j, i)}

----------------------------------------------------------------------------
(* Claims about the submission chain *)

\* the places of the calls of one action in the log of execution e
CallsOf(e, op) == {p \in DOMAIN sub[e].calls : sub[e].calls[p].op = op}

\* C19: an execution of the submission chain makes at most one asynchronous
\* call and nothing after it; one that has ended well has made exactly the
\* calls getObject of its descriptor, putObject of the payload and
\* invokeEndpointAsync, in this order.  The payload names the before and after
\* images under images/, the comparison output under compared/ and the text
\* "house, building, roof", each reference ending in the name the descriptor
\* gives; it is in the bucket under its key, and the call's input location is
\* that key.
Thm_C19_OneAsyncCall ==
    \A e \in DOMAIN sub :
        /\ Cardinality(CallsOf(e, "invokeEndpointAsync")) <= 1
        /\ \A p \in CallsOf(e, "invokeEndpointAsync") :
              p = Len(sub[e].calls) /\ sub[e].state \in {"Succeeded", "Failed"}
        /\ sub[e].state = "Succeeded" =>
              /\ Len(sub[e].calls) = 3
              /\ sub[e].calls[1].op = "getObject" /\ sub[e].calls[1].key = sub[e].key
              /\ sub[e].calls[2].op = "putObject"
              /\ sub[e].calls[3].op = "invokeEndpointAsync"
              /\ LET payload == sub[e].calls[2].body
                     written == sub[e].calls[2].key
                     named == sub[e].ParsedBody.d
                 IN /\ payload.before_image = <<"s", "3", ":", "/", "/", "b", "/", "i", "m", "a", "g", "e", "s", "/">> \o named.before.s
                    /\ payload.after_image = <<"s", "3", ":", "/", "/", "b", "/", "i", "m", "a", "g", "e", "s", "/">> \o named.after.s
                    /\ payload.compared_output = <<"s", "3", ":", "/", "/", "b", "/", "c", "o", "m", "p", "a", "r", "e", "d", "/">> \o named.compared_output.s
                    /\ payload.text = <<"h", "o", "u", "s", "e", ",", " ", "b", "u", "i", "l", "d", "i", "n", "g", ",", " ", "r", "o", "o", "f">>
                    /\ written \in objects
                    /\ sub[e].calls[3].key = <<"s", "3", ":", "/", "/", "b", "/">> \o written

\* an execution for inputs/case1.json has ended well
Wit_C19_OneAsyncCall ==
    \E e \in DOMAIN sub :
        /\ sub[e].state = "Succeeded"
        /\ sub[e].key = <<"i", "n", "p", "u", "t", "s", "/", "c", "a", "s", "e", "1", ".", "j", "s", "o", "n">>
        /\ sub[e].ParsedBody = Case1
        /\ CallsOf(e, "invokeEndpointAsync") = {3}

\* execution e has been given its payload key
HasPayloadKey(e) == sub[e].state \in {"CreatePayload", "CallSAM3", "Succeeded", "Failed"}
                    /\ sub[e].input.payloadKey # <<>>

\* C20: the payload key of a submission is payload/<token>.json for the token
\* States.UUID() gave it, and no two submissions, whether one follows the
\* other or both run at once, have the same payload key: no submission puts
\* its payload under, or hands to the endpoint, the key of another.
Thm_C20_PayloadKeysDiffer ==
    \A e \in DOMAIN sub :
        HasPayloadKey(e) =>
            /\ \E token \in Tokens :
                   sub[e].input.payloadKey = <<"p", "a", "y", "l", "o", "a", "d", "/">> \o token \o <<".", "j", "s", "o", "n">>
            /\ \A x \in DOMAIN sub \ {e} :
                   HasPayloadKey(x) =>
                       /\ sub[x].input.payloadKey # sub[e].input.payloadKey
                       /\ \A p \in DOMAIN sub[x].calls :
                              /\ sub[x].calls[p].key # sub[e].input.payloadKey
                              /\ sub[x].calls[p].key # <<"s", "3", ":", "/", "/", "b", "/">> \o sub[e].input.payloadKey

\* two submissions of the same descriptor have both ended well, each with its
\* payload in the bucket
Wit_C20_PayloadKeysDiffer ==
    \E e, x \in DOMAIN sub :
        /\ e # x
        /\ sub[e].state = "Succeeded" /\ sub[x].state = "Succeeded"
        /\ sub[e].key = sub[x].key /\ sub[e].ParsedBody = sub[x].ParsedBody
        /\ {sub[e].input.payloadKey, sub[x].input.payloadKey} \subseteq objects
        /\ Cardinality(objects) = Cardinality(SubmitKeys) + 2

----------------------------------------------------------------------------
(* Claims about the order of the stages *)

\* the routing branch, the report branch have started
RoutingStarted(i) == adj[i].pc # "none"
ReportStarted == proc.pc # "none"

\* the requests of the endpoint that have put their comparison image, have
\* written their completion artifact
Compared(e) == seg[e].pc \in {"output_fn", "completed"}
ComparedKey(e) == _parse_s3_uri(seg[e].input.compared_output).key

\* the keys the report handler has put
ReportPuts == {proc.calls[j].key : j \in {q \in DOMAIN proc.calls : proc.calls[q].op = "put_object"}}

\* C21 as stated: the routing branch never starts for an analysis whose
\* report branch has not run (the comparison image being written by the report
\* stage).
CE_C21_ReportBeforeRouting ==
    \A i \in DOMAIN adj : RoutingStarted(i) => ReportStarted

\* C21, amended: the comparison image under compared/ is written by the
\* segmentation stage, before the completion artifact.  The routing branch
\* starts only for an image a successfully submitted request of the endpoint
\* has put; the report branch starts only for a completion artifact the
\* endpoint has written, by which time the comparison image is in the bucket;
\* the report stage puts objects under llm_output/ and markdown/ only.
Thm_C21_SegmentationBeforeRouting ==
    /\ \A i \in DOMAIN adj :
         RoutingStarted(i) =>
            \E e \in DOMAIN seg : /\ sub[e].state = "Succeeded"
                                  /\ Compared(e)
                                  /\ adj[i].evkey = ComparedKey(e)
    /\ ReportStarted =>
         \E e \in DOMAIN seg : /\ seg[e].pc = "completed"
                               /\ proc.key = OutputKey(seg[e].id)
    /\ \A e \in DOMAIN seg : Compared(e) => ComparedKey(e) \in objects
    /\ \A k \in ReportPuts : startswith(k, <<"l", "l", "m", "_", "o", "u", "t", "p", "u", "t", "/">>) \/ startswith(k, <<"m", "a", "r", "k", "d", "o", "w", "n", "/">>)

\* the routing run of an analysis has returned before the completion artifact
\* is written, the report branch not begun
Wit_C21_SegmentationBeforeRouting ==
    /\ adj[1].pc = "done"
    /\ seg[1].pc = "output_fn"
    /\ ~ReportStarted

----------------------------------------------------------------------------
(* Claims about the helpers of the artifact stage *)

\* C22: for every normalised box and every image of width >= 1 and height
\* >= 1 the pixel box returned satisfies 0 <= left < right <= width and
\* 0 <= top < bottom <= height.
Thm_C22_PixelBoxInsideImage ==
    (fn.op = "_bbox_to_pixel_box" /\ fn.pc = "returned") =>
        /\ 0 <= fn.box.left /\ fn.box.left < fn.box.right /\ fn.box.right <= fn.width
        /\ 0 <= fn.box.top /\ fn.box.top < fn.box.bottom /\ fn.box.bottom <= fn.height

\* a box whose sides fall on one pixel column (both products truncate to the
\* same number) in an image of more than one pixel: the floor left + 1 acts
Wit_C22_PixelBoxInsideImage ==
    /\ fn.op = "_bbox_to_pixel_box" /\ fn.pc = "returned"
    /\ fn.width > 1
    /\ fn.bbox.x_min < fn.bbox.x_max
    /\ (fn.bbox.x_min * fn.width) \div Fine = (fn.bbox.x_max * fn.width) \div Fine
    /\ fn.box.right = fn.box.left + 1

\* the invocation has read its image: it is at, or past, the reasoning stage
ImageRead(a) ==
    a.pc \in {"_invoke_bedrock", "_normalize_decisions", "_save_visual_artifacts",
              "_write_routing_results", "batch_write_item", "done"}
        \/ (a.pc = "failed" /\ a.image # NoImage)

\* C23 as stated: when PIL is unavailable no crop and no annotated object is
\* written and no error comes of it: the routing invocation is not ended by
\* the missing library, and when it has returned, the table holds for every
\* structure a record whose crop reference and annotated reference are absent.
CE_C23_NoPilStillCompletes ==
    \A i \in DOMAIN adj :
        (~pil /\ ImageRead(adj[i])) =>
            /\ \A c \in DOMAIN adj[i].calls : adj[i].calls[c].op # "put_object"
            /\ objects = adj[i].before.objects
            /\ adj[i].err # "NameError"
            /\ adj[i].pc = "done" =>
                 /\ adj[i].result.annotated_image_s3_uri = JNull
                 /\ \A m \in DOMAIN adj[i].normalized.homes :
                      \E x \in table : /\ RecordOf(x, adj[i].normalized.homes[m])
                                       /\ x.home_crop_s3_uri = JNull
                                       /\ x.annotated_image_s3_uri = JNull

----------------------------------------------------------------------------
(* Claims about the size-fitting transform *)

Resized == fn.op = "resize_image" /\ fn.pc = "returned"

\* C24 as stated: each variant of the transform returns the bytes given when
\* they are not above the ceiling, and for bytes above the ceiling whatever it
\* returns is not longer than the ceiling.
CE_C24_OutputFits ==
    Resized =>
        /\ fn.len <= Ceiling(fn.variant) => fn.same
        /\ fn.len > Ceiling(fn.variant) => fn.out <= Ceiling(fn.variant)

\* the call is one of the processor's or the adjuster's transform and has
\* come to its downscale loop, no encoding having fitted so far
InDownscale ==
    /\ fn.op = "resize_image" /\ fn.variant \in {"processor", "adjuster"}
    /\ fn.pc = "downscale" \/ (fn.pc = "failed" /\ fn.err = "ValueError")

\* C25 as stated: for an image whose re-encodings never fit, the downscale
\* loop runs on and on, neither returning nor ending in a failure.
CE_C25_LoopNeverEnds == InDownscale => fn.pc = "downscale"

\* C25, amended: the loop has no ceiling of its own, but every pass shrinks
\* both sides, which stay at least 1 while the loop runs; the passes made are
\* fewer than the smaller side of the image given, and when no encoding fits
\* the loop ends in the ValueError of a resize to a side of 0.
Thm_C25_LoopEndsInFailure ==
    InDownscale =>
        /\ fn.width >= 1 /\ fn.height >= 1
        /\ fn.n <= IMin(fn.size0[1], fn.size0[2]) - 1
        /\ fn.width <= fn.size0[1] - fn.n /\ fn.height <= fn.size0[2] - fn.n
        /\ fn.pc = "failed" => (Scaled(fn.width) < 1 \/ Scaled(fn.height) < 1)

\* the loop has resized the image, no encoding fitted, and the next resize
\* raised
Wit_C25_LoopEndsInFailure ==
    /\ InDownscale /\ fn.pc = "failed" /\ fn.n >= 1

----------------------------------------------------------------------------
(* Claims about the overlap evaluator *)

Overlapped == fn.op = "_calculate_overlap" /\ fn.pc = "returned"

\* the bounding regions of two masks, as closed rectangles, share no point
Disjoint(mask1, mask2) ==
    \/ BBox(mask1).x_max < BBox(mask2).x \/ BBox(mask2).x_max < BBox(mask1).x
    \/ BBox(mask1).y_max < BBox(mask2).y \/ BBox(mask2).y_max < BBox(mask1).y

\* C26 as stated: overlap(A, A) is 1.0 for every mask A that is not empty,
\* a single point and points on one horizontal or vertical line included.
CE_C26_SelfOverlapIsOne ==
    (Overlapped /\ fn.mask1 # <<>> /\ fn.mask2 = fn.mask1) =>
        fn.result.num = fn.result.den

\* C27: overlap(A, B) = overlap(B, A) for all masks, empty or not; the value
\* lies in [0, 1]; it is 0 when the bounding regions are disjoint or a mask is
\* empty.
Thm_C27_OverlapSymmetric ==
    Overlapped =>
        /\ fn.result = _calculate_overlap(fn.mask2, fn.mask1)
        /\ fn.result.den > 0
        /\ 0 <= fn.result.num /\ fn.result.num <= fn.result.den
        /\ (fn.mask1 = <<>> \/ fn.mask2 = <<>>) => fn.result.num = 0
        /\ (fn.mask1 # <<>> /\ fn.mask2 # <<>> /\ Disjoint(fn.mask1, fn.mask2)) =>
              fn.result.num = 0

\* two different masks whose regions overlap in part: the value is strictly
\* between 0 and 1
Wit_C27_OverlapSymmetric ==
    /\ Overlapped /\ fn.mask1 # fn.mask2
    /\ 0 < fn.result.num /\ fn.result.num < fn.result.den

----------------------------------------------------------------------------
(* Claims about the confidence and the identifiers of the normalised records *)

\* C28 as stated: whatever the raw confidence is (missing, not a number,
\* negative, above 1, a numeric string), the confidence of the normalised
\* record is a number from 0 to 1.
CE_C28_ConfidenceInUnit ==
    \A i \in DOMAIN adj : NormDone(i) =>
        \A j \in 1..Len(NormHomes(i)) :
            /\ NormHomes(i)[j].confidence.k = "fin"
            /\ 0 <= NormHomes(i)[j].confidence.v
            /\ NormHomes(i)[j].confidence.v <= Fine

\* the homes of the parsed output are a list of objects
ListOfDicts(raw) ==
    /\ HomesOf(raw).t = "list"
    /\ \A j \in 1..Len(HomesOf(raw).items) : HomesOf(raw).items[j].t = "dict"

\* what C29 gives as the confidence of a raw value: 0.0 for a missing one and
\* for one that is no number (null, a list, an object, a string that is not
\* numeric), the value of a number and of a numeric string
NotANumber(raw) ==
    \/ raw.t \in {"absent", "null", "list", "dict"}
    \/ raw.t = "str" /\ ~ParseFloat(raw.s).ok

\* C29 as stated: the coercion of the confidence never fails the run; a
\* missing or non-convertible confidence becomes 0.0, a number or a numeric
\* string keeps its numeric value.
CE_C29_CoercionNeverFails ==
    \A i \in DOMAIN adj :
        (adj[i].pc # "_normalize_decisions" /\ ListOfDicts(adj[i].raw)) =>
            /\ adj[i].pc # "failed"
            /\ \A j \in 1..Len(NormHomes(i)) :
                 LET raw == RawField(RawItems(i)[j], "confidence")
                     confidence == NormHomes(i)[j].confidence
                 IN /\ NotANumber(raw) => confidence = Fin(0)
                    /\ raw.t = "int" => confidence = Fin(raw.n * Fine)
                    /\ raw.t = "float" => confidence = raw.f
                    /\ (raw.t = "str" /\ ParseFloat(raw.s).ok) =>
                          confidence = ParseFloat(raw.s).f

\* house- followed by the position (below 10) written with three digits
PositionId(j) == <<"h", "o", "u", "s", "e", "-", "0", "0">> \o NatStr(j)

\* C30: normalisation keeps the order of the list: the i-th record is made of
\* the i-th raw entry (i counted from 1); an entry without house_id gets
\* house- followed by i in three digits, i being its position in the whole
\* list; an entry with a house_id keeps it.
Thm_C30_OrderAndFallbackIds ==
    \A i \in DOMAIN adj : NormDone(i) =>
        /\ Len(NormHomes(i)) = Len(RawItems(i))
        /\ \A j \in 1..Len(NormHomes(i)) :
             LET raw == RawItems(i)[j]
                 id == RawField(raw, "house_id")
             IN /\ id.t = "absent" => NormHomes(i)[j].house_id = PositionId(j)
                /\ id.t = "str" => NormHomes(i)[j].house_id = id.s
                /\ id.t \notin {"absent", "str"} => NormHomes(i)[j].house_id = str(id)
                /\ NormHomes(i)[j].decision = DecisionOf(raw)
                /\ NormHomes(i)[j].confidence = ConfidenceOf(raw)
                /\ NormHomes(i)[j].has_5ft_inclusion_zone = get(raw, "has_5ft_inclusion_zone", JNull)

\* a list of two entries, the first with its own identifier, the second with
\* none: the second record is house-002
Wit_C30_OrderAndFallbackIds ==
    \E i \in DOMAIN adj : NormDone(i)
        /\ Len(NormHomes(i)) = 2
        /\ RawField(RawItems(i)[1], "house_id").t = "str"
        /\ RawField(RawItems(i)[2], "house_id").t = "absent"
        /\ NormHomes(i)[1].house_id = RawField(RawItems(i)[1], "house_id").s
        /\ NormHomes(i)[2].house_id = <<"h", "o", "u", "s", "e", "-", "0", "0", "2">>
        /\ NormHomes(i)[1].decision # NormHomes(i)[2].decision


----------------------------------------------------------------------------
(* Claims about failures of the report branch *)

\* the report invocation whose read of the completion artifact failed:
\* load_json_from_s3 raised RuntimeError for a ClientError of get_object
ArtifactReadFailed == proc.err = "RuntimeError"

\* C31: when the read of the segmentation completion artifact fails, the
\* report invocation ends with a fatal error and has had no effect: its one
\* call is the failed read (the reasoning service is not called, nothing is
\* put under llm_output/ or markdown/, the read is not made a second time), no
\* base name was made, and the task that waits for it fails.
Thm_C31_ArtifactReadFailureIsFatal ==
    ArtifactReadFailed =>
        /\ proc.pc = "failed"
        /\ proc.calls = <<ProcCall("get_object", proc.key)>>
        /\ proc.base_name = <<>>
        /\ ReportPuts = {}
        /\ sfn.state = "Failed"

\* the report invocation set off by a completion artifact the endpoint has
\* written failed to read it, although the artifact is in the bucket
Wit_C31_ArtifactReadFailureIsFatal ==
    /\ ArtifactReadFailed /\ proc.pc = "failed"
    /\ proc.variant = "processor" /\ IsAsyncOutKey(proc.key)
    /\ Completed(proc.key) # {} /\ proc.key \in objects

\* the executions of the report handler the ProcessImage task of the current
\* event has set off: the lost attempts whose handler ran, and the present one
ReportExecutions ==
    Cardinality({j \in DOMAIN proc.earlier : proc.earlier[j]})
      + (IF proc.pc \in {"none", "lambda_handler"} THEN 0 ELSE 1)

\* C32 as stated: no stage runs a second time for the same event; of the
\* report stage, the handler is executed at most once for the event that
\* started the ProcessImage task.
CE_C32_StageRunsOncePerEvent ==
    sfn.branch = "report" => ReportExecutions <= 1

----------------------------------------------------------------------------
(* Claims about the names of the report's outputs *)

\* C33 as stated: the base names of two report invocations differ, so no
\* invocation overwrites the output of another: every object a first attempt
\* of the report handler puts is new in the bucket.
CE_C33_ReportsNeverOverwrite ==
    [][(proc.earlier = <<>> /\ proc'.earlier = <<>>) =>
          \A k \in ReportPuts' \ ReportPuts : k \notin objects]_vars

----------------------------------------------------------------------------
(* Claims about the events the stages' own objects raise *)

\* the keys the submission chain, the report handler and the routing handler
\* have put
SubmissionPuts ==
    UNION {{sub[e].calls[j].key : j \in {q \in DOMAIN sub[e].calls : sub[e].calls[q].op = "putObject"}} : e \in DOMAIN sub}
RoutingPuts ==
    UNION {{adj[i].calls[j].key : j \in {q \in DOMAIN adj[i].calls : adj[i].calls[q].op = "put_object"}} : i \in DOMAIN adj}
StagePuts == SubmissionPuts \cup ReportPuts \cup RoutingPuts

\* a step that starts the routing handler, an execution of the state machine
StartsRouting(i) == adj'[i].pc = "lambda_handler" /\ adj[i] # adj'[i]
StartsExecution == sfn'.state = "CheckInputFormat" /\ sfn # sfn'

\* C34: no key put by the submission, the report or the routing stage
\* (payload/, llm_output/, markdown/, routing-artifacts/) matches the pattern
\* of S3ObjectCreatedRule or of ComparedObjectCreatedRule; the event of a
\* descriptor starts one submission, the completion artifact one execution of
\* the report branch (one ProcessImage task), the comparison image one routing
\* invocation, and none of them is started a second time.
Thm_C34_NoFeedback ==
    /\ [](/\ \A k \in StagePuts : ~PipelineRuleMatches(k) /\ ~AdjusterRuleMatches(k)
          /\ \A e \in DOMAIN sub : e # 1 => sub[e].state = "none" /\ seg[e].pc = "none")
    /\ [][/\ \A i \in DOMAIN adj : StartsRouting(i) => adj[i].pc = "none"
          /\ StartsExecution => sfn.state = "none" /\ proc.pc = "none"
          /\ (proc'.pc = "lambda_handler" /\ proc # proc') =>
                sfn.state \in {"ProcessImage", "ProcessImageWait"}]_vars

\* all three stages have run to their end for one descriptor, the routing
\* stage has put a crop, and no event is waiting for a rule
Wit_C34_NoFeedback ==
    /\ sub[1].state = "Succeeded" /\ proc.pc = "returned" /\ adj[1].pc = "done"
    /\ sfn.state = "Succeeded"
    /\ \E k \in RoutingPuts : startswith(k, CropPrefix)
    /\ \E k \in SubmissionPuts : k \in objects
    /\ Cardinality(ReportPuts) = 2
    /\ ev.rules = {}

----------------------------------------------------------------------------
(* Claims about the keys of the crops *)

\* C35 as stated: in one routing run, homes with different identifiers get
\* different crop keys, so that no two crop references of the run name the
\* same object.
CE_C35_CropKeysDiffer ==
    \A i \in DOMAIN adj :
        \A a, b \in DOMAIN adj[i].crop_uris :
            a # b => adj[i].crop_uris[a] # adj[i].crop_uris[b]

----------------------------------------------------------------------------
(* Claims about the passes of the downscale loop *)

\* new is the whole part of 0.8 * old
FloorOfFourFifths(old, new) == 10 * new <= 8 * old /\ 8 * old < 10 * new + 10

\* C36: a pass of the downscale loop asks for the size (floor(0.8 * w),
\* floor(0.8 * h)); while both are positive the image takes that size, which
\* is smaller than before in both sides, and the loop goes on or returns; the
\* pass that asks for a side of 0 ends the loop.  The passes made never exceed
\* the smaller side of the image given.
Thm_C36_EveryPassShrinks ==
    [][(fn.op = "resize_image" /\ fn.pc = "downscale") =>
          /\ FloorOfFourFifths(fn.width, Scaled(fn.width))
          /\ FloorOfFourFifths(fn.height, Scaled(fn.height))
          /\ Scaled(fn.width) < fn.width /\ Scaled(fn.height) < fn.height
          /\ IF Scaled(fn.width) = 0 \/ Scaled(fn.height) = 0
             THEN fn'.pc = "failed" /\ fn'.n = fn.n
             ELSE /\ fn'.pc \in {"downscale", "returned"}
                  /\ fn'.width = Scaled(fn.width) /\ fn'.height = Scaled(fn.height)
                  /\ fn'.n = fn.n + 1
          /\ fn'.n <= IMin(fn.size0[1], fn.size0[2])]_vars

\* a square image of the largest side has been scaled down pass by pass to
\* one pixel, and the pass after that ended the loop
Wit_C36_EveryPassShrinks ==
    /\ fn.op = "resize_image" /\ fn.pc = "failed" /\ fn.err = "ValueError"
    /\ fn.size0 = <<MaxSide, MaxSide>>
    /\ fn.width = 1 /\ fn.height = 1
    /\ fn.n = MaxSide - 1

----------------------------------------------------------------------------
(* Claims about the comparison image *)

\* the before masks the loop has passed, the outlines drawn for mask j
Passed == 1..(fn.j - 1)
OutlinesOf(j) == {o \in DOMAIN fn.outlines : fn.outlines[o].mask = j}

\* some mask of the after image overlaps the before mask j by more than 0.5
SurvivedMask(j) ==
    \E a \in DOMAIN fn.after_masks :
       LET overlap == _calculate_overlap(fn.before_masks[j], fn.after_masks[a])
       IN 2 * overlap.num > overlap.den

\* the comparison image is in the bucket under the location the caller named
ComparedWritten ==
    /\ fn.j > Len(fn.before_masks)
    /\ fn.calls = <<[op |-> "put_object", key |-> _parse_s3_uri(fn.compared_output).key]>>
    /\ _parse_s3_uri(fn.compared_output).key \in objects

\* C37 as stated: every mask of the before image the loop has passed is
\* outlined exactly once.
CE_C37_EveryMaskOutlined ==
    fn.op = "predict_fn" => \A j \in Passed : Cardinality(OutlinesOf(j)) = 1

\* C37, amended: every mask of the before image that has a point is outlined
\* exactly once, in green if and only if a mask of the after image overlaps it
\* by more than 0.5, in red otherwise (also when the after image has no mask);
\* a mask without points gets no outline; the outlines are drawn in the order
\* of the masks; and the descriptor is returned only after the comparison
\* image was put under the location the caller named.
Thm_C37_OutlinesAndOrder ==
    fn.op = "predict_fn" =>
        /\ \A j \in Passed :
              IF fn.before_masks[j] = <<>> THEN OutlinesOf(j) = {}
              ELSE /\ Cardinality(OutlinesOf(j)) = 1
                   /\ \A o \in OutlinesOf(j) :
                         /\ fn.outlines[o].color = IF SurvivedMask(j) THEN "green" ELSE "red"
                         /\ fn.outlines[o].box = BBox(fn.before_masks[j])
        /\ \A o \in DOMAIN fn.outlines : fn.outlines[o].mask \in Passed
        /\ \A o, p \in DOMAIN fn.outlines : o < p => fn.outlines[o].mask < fn.outlines[p].mask
        /\ fn.pc \in {"saved", "returned"} => ComparedWritten
        /\ fn.returned <=> fn.pc = "returned"
        /\ fn.pc = "failed" => ~fn.returned /\ _parse_s3_uri(fn.compared_output).key \notin objects

\* the descriptor is returned for a before image with an empty mask and a
\* square, the after image holding the lower half of the square (an overlap of
\* exactly one half) and nothing else
Wit_C37_OutlinesAndOrder ==
    /\ fn.op = "predict_fn" /\ fn.pc = "returned"
    /\ fn.before_masks = << <<>>, << <<0, 0>>, <<2, 2>> >> >>
    /\ fn.after_masks = << << <<0, 0>>, <<2, 1>> >> >>
    /\ Len(fn.outlines) = 1 /\ fn.outlines[1].color = "red"

----------------------------------------------------------------------------
(* Claims about the endpoint monitor *)

\* the delete requests an invocation has made, the accepted ones
DeleteRequests == {c \in DOMAIN fn.calls : fn.calls[c].op = "delete_endpoint"}
Accepted == {c \in DeleteRequests : fn.calls[c].outcome = "ok"}

\* the invocation has ended, by a return or by an exception
MonitorEnded == fn.op = "endpoint_monitor" /\ fn.pc \in {"returned", "failed"}

\* C38: the monitor asks for the deletion only of an endpoint that exists, is
\* at least one hour old and was InService when described.  For an endpoint
\* that is not found it returns action none, for one younger than an hour it
\* returns action skipped, and in both cases, as for every other status and
\* for a failed describe_endpoint, it makes no delete request.
Thm_C38_DeleteOnlyOldInService ==
    fn.op = "endpoint_monitor" =>
        /\ DeleteRequests # {} =>
              /\ fn.endpoint.exists /\ fn.endpoint.age >= MinAgeMinutes
              /\ fn.status = "InService"
              /\ fn.calls[1] = MonitorCalled("describe_endpoint", "ok")
        /\ (MonitorEnded /\ ~fn.endpoint.exists /\ fn.pc = "returned") =>
              fn.result = Action("none", "endpoint_not_found") /\ Len(fn.calls) = 1
        /\ (fn.pc = "returned" /\ fn.endpoint.exists /\ fn.endpoint.age < MinAgeMinutes) =>
              fn.result.action = "skipped" /\ Len(fn.calls) = 1
        /\ (fn.pc = "returned" /\ fn.endpoint.exists /\ fn.endpoint.age >= MinAgeMinutes
              /\ fn.status # "InService") =>
              fn.result = NoAction /\ Len(fn.calls) = 1
        /\ fn.pc = "delete_endpoint" => fn.status = "InService" /\ fn.age >= MinAgeMinutes

\* an endpoint that is InService and one minute short of an hour was skipped
Wit_C38_DeleteOnlyOldInService ==
    /\ fn.op = "endpoint_monitor" /\ fn.pc = "returned"
    /\ fn.endpoint.exists /\ fn.endpoint.status = "InService"
    /\ fn.endpoint.age = MinAgeMinutes - 1
    /\ fn.result.action = "skipped" /\ DeleteRequests = {}

\* C39 (as stated): an invocation makes at most three delete requests and none
\* after an accepted one; it returns action deleted exactly when a request was
\* accepted, and action failed exactly when all three requests failed.
CE_C39_FailedIffAllThreeFailed ==
    MonitorEnded =>
        /\ Cardinality(DeleteRequests) <= DeleteAttempts
        /\ \A c \in Accepted : c = Len(fn.calls)
        /\ fn.result.action = "deleted" <=> Accepted # {}
        /\ fn.result.action = "failed" <=>
              (Cardinality(DeleteRequests) = DeleteAttempts /\ Accepted = {})

\* the delete requests that SageMaker refused with a ClientError, and those
\* that failed with an error that is no ClientError
Refused == {c \in DeleteRequests : fn.calls[c].outcome = "ClientError"}
Broken == {c \in DeleteRequests : fn.calls[c].outcome \notin {"ok", "ClientError"}}

\* C39 (amended): an invocation makes at most three delete requests and none
\* after an accepted one; it returns action deleted exactly when a request was
\* accepted, and action failed exactly when three requests were refused with
\* a ClientError.  A request that fails with another error is the last one:
\* the invocation ends with that error and returns no action.
Thm_C39_BoundedDeleteRetry ==
    /\ fn.op = "endpoint_monitor" =>
          /\ Cardinality(DeleteRequests) <= DeleteAttempts
          /\ \A c \in Accepted \cup Broken : c = Len(fn.calls) /\ MonitorEnded
    /\ MonitorEnded =>
          /\ fn.result.action = "deleted" <=> Accepted # {}
          /\ fn.result.action = "failed" <=> Cardinality(Refused) = DeleteAttempts
          /\ Broken # {} <=>
                (fn.pc = "failed" /\ fn.result = NoAction /\ DeleteRequests # {})

\* the third request was accepted after two refusals
Wit_C39_BoundedDeleteRetry ==
    /\ MonitorEnded /\ fn.result.action = "deleted"
    /\ Cardinality(Refused) = DeleteAttempts - 1
    /\ Accepted = {Len(fn.calls)}
====
